---- MODULE Spec2Model ----
(***************************************************************************)
(* BS-Draft: the draft-state transition engine (DraftState.cpp) and the    *)
(* parallel Monte Carlo tree search built on it (MCTS.cpp).                *)
(*                                                                         *)
(* Brawler names are modelled as integers: the lexicographic order of the  *)
(* QString names is the order of the integers.                             *)
(***************************************************************************)
EXTENDS Integers, Sequences, FiniteSets, TLC

\* ------------------------------------------------------------------ bounds
\* Size of the master brawler list.
NumBrawlers == 7
\* Worker threads of the pool (QThread::idealThreadCount()).
NumThreads == 1
\* Accepted search runs.
MaxRuns == 2
\* Iterations begun while m_totalIterationsDone is below this.
MaxIters == 2
\* The configured time budget m_config.mctsTimeLimit(), in seconds.
TimeLimitTicks == 2
\* "MCTS already running." rejections recorded per run.
MaxRejects == 1
\* Rollout results are kept in units of 1 / (2 * Resolution).
Resolution == 1
\* Longest match list handed to calculateStats.
MaxGames == 2
\* Largest wins, plays and total of a cache file's entry.
MaxCount == 2

\* ------------------------------------------------------- program constants
MaxBans == 6
MaxTeamSize == 3
LastPick == 6
\* intermediateResultIntervalMs, in seconds.
IntermediateIntervalTicks == 1
mctsResultCount == 10
\* mctsExplorationParam, in thousandths.
ExplorationMilli == 1414

VARIABLES
    ds,     \* the caller's current DraftState (the receiver of the next call)
    last,   \* the last DraftState call: [op, err]; err = "none" on success
    m_stopRequested,        \* MCTSManager::m_stopRequested
    m_totalIterationsDone,  \* MCTSManager::m_totalIterationsDone
    trees,      \* run -> the run's tree: a sequence of MCTSNode, the root first
    runs,       \* number of accepted runs; the current run is the last one
    pool,       \* m_threadPool: thread -> the worker task it executes
    queue,      \* m_threadPool: runs whose worker tasks wait for a thread
    ctrl,       \* the controller task (m_controllerFuture)
    mainPc,     \* the caller's thread: "idle", or inside startMcts
    log,        \* the signals of the last start that was not rejected, as emitted
    ranking,    \* the argument of the last mctsIntermediateResult / mctsFinalResult
    rejects,    \* "MCTS already running." errors emitted while this controller runs
    stopSleeps, \* -1, or the sleeps the controller began since stopMcts was called
    m_config,   \* AppConfig: the settings StatsCalculator reads
    m_stats,    \* StatsCalculator::m_stats: map -> mode -> MapModeStats
    cache,      \* the CacheData.stats last loaded from file or exported
    reply       \* the last StatsCalculator / Heuristics call and what it returned

draftVars == <<ds, last>>
mctsVars == <<m_stopRequested, m_totalIterationsDone, trees, runs, pool, queue,
              ctrl, mainPc, log, ranking, rejects, stopSleeps>>
statsVars == <<m_config, m_stats, cache, reply>>
vars == <<ds, last, m_stopRequested, m_totalIterationsDone, trees, runs, pool,
          queue, ctrl, mainPc, log, ranking, rejects, stopSleeps,
          m_config, m_stats, cache, reply>>

\* ============================================================== DraftState

Brawlers == 1..NumBrawlers
\* Arguments a caller may pass: every brawler of the master list and one
\* name that is not in it.
Names == 1..(NumBrawlers + 1)

SeqToSet(s) == {s[i] : i \in 1..Len(s)}

\* DraftState::updateAvailable: master minus bans minus both pick lists.
RECURSIVE RemoveAll(_, _)
RemoveAll(set, picks) ==
    IF picks = <<>> THEN set
    ELSE RemoveAll(set \ {Head(picks)}, Tail(picks))

\* A variant that forgets the bans.
updateAvailable_IgnoringBans(master, bans, team1Picks, team2Picks) ==
    RemoveAll(RemoveAll(master, team1Picks), team2Picks)

updateAvailable(master, bans, team1Picks, team2Picks) ==
    RemoveAll(RemoveAll(master \ bans, team1Picks), team2Picks)

\* DraftState::DraftState: stores the arguments and recomputes m_available.
DraftState(master, bans, team1Picks, team2Picks, turn, pickNumber) ==
    [ map        |-> "map",
      mode       |-> "mode",
      master     |-> master,
      bans       |-> bans,
      team1Picks |-> team1Picks,
      team2Picks |-> team2Picks,
      turn       |-> turn,
      pickNumber |-> pickNumber,
      available  |-> updateAvailable(master, bans, team1Picks, team2Picks) ]

\* The default arguments of the constructor: a fresh draft.
FreshDraft(master) == DraftState(master, {}, <<>>, <<>>, "team1", 1)

isComplete(s) == s.pickNumber > LastPick

isValid(s) ==
    LET pickedOrBanned == s.bans \cup SeqToSet(s.team1Picks) \cup SeqToSet(s.team2Picks)
    IN  /\ ~(Len(s.team1Picks) > MaxTeamSize \/ Len(s.team2Picks) > MaxTeamSize
             \/ Cardinality(s.bans) > MaxBans)
        /\ Cardinality(pickedOrBanned)
             = Cardinality(s.bans) + Len(s.team1Picks) + Len(s.team2Picks)
        /\ pickedOrBanned \subseteq s.master

\* A variant that gives team 1 the sixth pick.
NextTurn_Team1Last(pickNumber) ==
    CASE pickNumber = 1 -> "team2"
      [] pickNumber = 2 -> "team2"
      [] pickNumber = 3 -> "team1"
      [] pickNumber = 4 -> "team1"
      [] pickNumber = 5 -> "team1"
      [] pickNumber = 6 -> ""
      [] OTHER -> ""

\* A variant in which the teams alternate.
NextTurn_Alternating(pickNumber) ==
    CASE pickNumber = 1 -> "team2"
      [] pickNumber = 2 -> "team1"
      [] pickNumber = 3 -> "team2"
      [] pickNumber = 4 -> "team1"
      [] pickNumber = 5 -> "team2"
      [] OTHER -> ""

\* The switch of applyMove: the turn after the pick numbered pickNumber.
NextTurn(pickNumber) ==
    CASE pickNumber = 1 -> "team2"
      [] pickNumber = 2 -> "team2"
      [] pickNumber = 3 -> "team1"
      [] pickNumber = 4 -> "team1"
      [] pickNumber = 5 -> "team2"
      [] pickNumber = 6 -> ""
      [] OTHER -> ""

\* A variant that clears the receiver's turn before it throws.
Throw_TurnLost(s, e) ==
    [ok |-> FALSE, err |-> e, receiver |-> [s EXCEPT !.turn = ""]]

\* A call that throws: no state is returned, the receiver is as it was.
Throw(s, e) == [ok |-> FALSE, err |-> e, receiver |-> s]
\* A call that returns the new state n; the receiver (a const object) is as it was.
Return(s, n) == [ok |-> TRUE, err |-> "none", receiver |-> s, state |-> n]

\* The guards of applyMove, in the order of the code.
MoveError(s, brawler) ==
    IF isComplete(s) THEN "complete"
    ELSE IF brawler \notin s.available THEN "unavailable"
    ELSE IF s.turn = "team1" THEN
        (IF Len(s.team1Picks) >= MaxTeamSize THEN "teamfull" ELSE "none")
    ELSE IF s.turn = "team2" THEN
        (IF Len(s.team2Picks) >= MaxTeamSize THEN "teamfull" ELSE "none")
    ELSE "badturn"

applyMove(s, brawler) ==
    IF MoveError(s, brawler) # "none" THEN Throw(s, MoveError(s, brawler))
    ELSE Return(s,
           DraftState(s.master, s.bans,
                      IF s.turn = "team1" THEN Append(s.team1Picks, brawler)
                                          ELSE s.team1Picks,
                      IF s.turn = "team2" THEN Append(s.team2Picks, brawler)
                                          ELSE s.team2Picks,
                      NextTurn(s.pickNumber), s.pickNumber + 1))

\* The guards of applyBan, in the order of the code.
BanError(s, brawler) ==
    IF Cardinality(s.bans) >= MaxBans THEN "bansfull"
    ELSE IF brawler \notin s.available THEN "unavailable"
    ELSE "none"

\* applyBan that advances turn and pick number as applyMove does.
applyBan_AdvancesTurn(s, brawler) ==
    IF BanError(s, brawler) # "none" THEN Throw(s, BanError(s, brawler))
    ELSE Return(s,
           DraftState(s.master, s.bans \cup {brawler}, s.team1Picks,
                      s.team2Picks, NextTurn(s.pickNumber), s.pickNumber + 1))

applyBan(s, brawler) ==
    IF BanError(s, brawler) # "none" THEN Throw(s, BanError(s, brawler))
    ELSE Return(s,
           DraftState(s.master, s.bans \cup {brawler}, s.team1Picks,
                      s.team2Picks, s.turn, s.pickNumber))

\* std::sort of a set of names into an ascending sequence.
RECURSIVE SortedSeq(_)
SortedSeq(set) ==
    IF set = {} THEN <<>>
    ELSE LET m == CHOOSE x \in set : \A y \in set : x <= y
         IN  <<m>> \o SortedSeq(set \ {m})

\* getLegalMoves without the test of isComplete().
getLegalMoves_IgnoresComplete(s) == SortedSeq(s.available)
getLegalMoves(s) == IF isComplete(s) THEN <<>> ELSE SortedSeq(s.available)

\* ================================================================ MCTSNode

\* Rollout results: a team-1 win probability r stands for r / One.
One == 2 * Resolution
Half == Resolution
\* The values predictWinProbabilityModel is taken to return for two full
\* teams: a certain loss and a certain win of team 1.
WinProbValues == {0, One}

\* A variant of the constructor that flags no node terminal.
MCTSNode_NeverTerminal(s, p, m) ==
    [ state        |-> s,
      parent       |-> p,
      move         |-> m,
      children     |-> <<>>,
      wins         |-> 0,
      visits       |-> 0,
      untriedMoves |-> IF isComplete(s) THEN <<>> ELSE getLegalMoves(s),
      isTerminal   |-> FALSE ]

\* MCTSNode::MCTSNode: parent 0 is a null pointer, move 0 the empty string.
MCTSNode(s, p, m) ==
    [ state        |-> s,
      parent       |-> p,
      move         |-> m,
      children     |-> <<>>,
      wins         |-> 0,
      visits       |-> 0,
      untriedMoves |-> IF isComplete(s) THEN <<>> ELSE getLegalMoves(s),
      isTerminal   |-> isComplete(s) ]

isFullyExpanded(n) == n.untriedMoves = <<>>

\* Integer square root, by bisection.
RECURSIVE ISqrtIn(_, _, _)
ISqrtIn(x, lo, hi) ==
    IF lo >= hi THEN lo
    ELSE LET mid == (lo + hi + 1) \div 2
         IN  IF mid * mid <= x THEN ISqrtIn(x, mid, hi)
                               ELSE ISqrtIn(x, lo, mid - 1)
ISqrt(x) == ISqrtIn(x, 0, IF x < 46340 THEN x ELSE 46340)

\* log(parentVisits), in thousandths.
LnMilli(n) ==
    CASE n <= 1 -> 0
      [] n = 2 -> 693
      [] n = 3 -> 1099
      [] n = 4 -> 1386
      [] n = 5 -> 1609
      [] n = 6 -> 1792
      [] n = 7 -> 1946
      [] n = 8 -> 2079
      [] n = 9 -> 2197
      [] OTHER -> 2303

\* std::numeric_limits<double>::infinity(): above every finite score.
Infinity == 1000000000

\* The UCT score of a child, in thousandths:
\* wins / visits + explorationParam * sqrt(log(parentVisits) / visits).
UctScore(parentVisits, child) ==
    IF child.visits = 0 THEN Infinity
    ELSE (1000 * child.wins) \div (One * child.visits)
         + (ExplorationMilli
              * ISqrt((1000 * LnMilli(parentVisits)) \div child.visits)) \div 1000

\* A variant whose scan keeps the first child with the least score.
uctSelectChild_Least(tree, id) ==
    LET n == tree[id]
        score(i) == UctScore(n.visits, tree[n.children[i]])
    IN  IF n.children = <<>> THEN {0}
        ELSE IF n.visits = 0 THEN SeqToSet(n.children)
        ELSE { n.children[i] : i \in
                 { j \in 1..Len(n.children) :
                     /\ \A k \in 1..Len(n.children) : score(k) >= score(j)
                     /\ \A k \in 1..(j - 1) : score(k) > score(j) } }

\* MCTSNode::uctSelectChild on node id of tree: the children it may return;
\* 0 is nullptr.  The scan keeps the first child with the greatest score.
uctSelectChild(tree, id) ==
    LET n == tree[id]
        score(i) == UctScore(n.visits, tree[n.children[i]])
    IN  IF n.children = <<>> THEN {0}
        ELSE IF n.visits = 0 THEN SeqToSet(n.children)
        ELSE { n.children[i] : i \in
                 { j \in 1..Len(n.children) :
                     /\ \A k \in 1..Len(n.children) : score(k) <= score(j)
                     /\ \A k \in 1..(j - 1) : score(k) < score(j) } }

\* A variant of expand that reads the last untried move without taking it.
expand_KeepsMove(tree, id) ==
    LET n == tree[id]
    IN  IF n.untriedMoves = <<>> THEN [tree |-> tree, node |-> 0]
        ELSE LET moveToTry == n.untriedMoves[Len(n.untriedMoves)]
                 r == applyMove(n.state, moveToTry)
                 newId == Len(tree) + 1
             IN  IF r.ok
                 THEN [tree |-> Append(
                                 [tree EXCEPT ![id].children = Append(@, newId)],
                                 MCTSNode(r.state, id, moveToTry)),
                       node |-> newId]
                 ELSE [tree |-> tree, node |-> 0]
\* MCTSNode::expand on node id of tree, under the node's mutex: the tree
\* afterwards and the node returned (0 is nullptr).
expand(tree, id) ==
    LET n == tree[id]
    IN  IF n.untriedMoves = <<>> THEN [tree |-> tree, node |-> 0]
        ELSE LET moveToTry == n.untriedMoves[Len(n.untriedMoves)]
                 rest == SubSeq(n.untriedMoves, 1, Len(n.untriedMoves) - 1)
                 r == applyMove(n.state, moveToTry)
                 newId == Len(tree) + 1
             IN  IF r.ok
                 THEN [tree |-> Append(
                                 [tree EXCEPT ![id].untriedMoves = rest,
                                              ![id].children = Append(@, newId)],
                                 MCTSNode(r.state, id, moveToTry)),
                       node |-> newId]
                 ELSE [tree |-> [tree EXCEPT ![id].untriedMoves = rest],
                       node |-> 0]

\* MCTSManager::simulateRollout: the states a rollout from s may end in.  The
\* move played is the heuristic's suggestion or a random legal move: some
\* legal move.  The loop ends when the draft is complete, when no move is
\* legal, or when applyMove throws.
RECURSIVE RolloutEnds(_)
RolloutEnds(s) ==
    IF isComplete(s) THEN {s}
    ELSE IF getLegalMoves(s) = <<>> THEN {s}
    ELSE UNION { LET r == applyMove(s, m)
                 IN  IF r.ok THEN RolloutEnds(r.state) ELSE {s}
                 : m \in SeqToSet(getLegalMoves(s)) }

\* predictWinProbabilityModel: 1/2 unless both teams hold 3 brawlers.
predictWinProbabilityModel(s) ==
    IF Len(s.team1Picks) # MaxTeamSize \/ Len(s.team2Picks) # MaxTeamSize
    THEN {Half}
    ELSE WinProbValues

\* The results simulateRollout may return for a rollout from s.
simulateRollout(s) ==
    UNION { IF isComplete(e) THEN predictWinProbabilityModel(e) ELSE {Half}
            : e \in RolloutEnds(s) }

\* A variant that credits every node with its own turn.
ParentTurn_OwnTurn(tree, id) == tree[id].state.turn
\* The turn backpropagation credits a node with: the parent's turn, and for
\* the root its own.
ParentTurn(tree, id) ==
    IF tree[id].parent # 0 THEN tree[tree[id].parent].state.turn
    ELSE tree[id].state.turn

ResultForNode(tree, id, result) ==
    IF ParentTurn(tree, id) = "team1" THEN result ELSE One - result

\* ------------------------------------------------------------ MCTSResult
MCTSResult(m, v, w) == [move |-> m, visits |-> v, wins |-> w]

\* A variant of the comparison that looks at the win rate first.
ResultBefore_ByWinRate(a, b) ==
    IF a.wins * b.visits # b.wins * a.visits
    THEN a.wins * b.visits > b.wins * a.visits
    ELSE a.visits > b.visits

\* The comparison of getMctsResults' std::sort: a goes before b.
\* winRate is wins / visits.
ResultBefore(a, b) ==
    IF a.visits # b.visits THEN a.visits > b.visits
    ELSE a.wins * b.visits > b.wins * a.visits

\* The children of the root with visits > 0, in the order of the child list.
RECURSIVE VisitedResults(_, _)
VisitedResults(tree, kids) ==
    IF kids = <<>> THEN <<>>
    ELSE LET c == tree[Head(kids)]
         IN  (IF c.visits > 0 THEN <<MCTSResult(c.move, c.visits, c.wins)>>
                              ELSE <<>>)
             \o VisitedResults(tree, Tail(kids))

\* The orders std::sort may leave a sequence in: every arrangement in which
\* no element comes after one it goes before.
Sorted(seq) ==
    LET n == Len(seq)
        perms == { f \in [1..n -> 1..n] : \A i, j \in 1..n : i # j => f[i] # f[j] }
    IN  { [i \in 1..n |-> seq[f[i]]] : f \in
            { g \in perms : \A i, j \in 1..n :
                              i < j => ~ResultBefore(seq[g[j]], seq[g[i]]) } }

Truncate(seq, limit) == IF Len(seq) > limit THEN SubSeq(seq, 1, limit) ELSE seq

\* MCTSManager::getMctsResults: the rankings it may return for a tree.
getMctsResultsWith(tree, limit) ==
    IF tree = <<>> \/ tree[1].children = <<>> THEN {<<>>}
    ELSE { Truncate(r, limit) :
             r \in Sorted(VisitedResults(tree, tree[1].children)) }

\* With the result count of the default settings.
getMctsResults(tree) == getMctsResultsWith(tree, mctsResultCount)

\* ------------------------------------------------- the caller of the draft
\* The caller keeps the returned state when the call succeeds and what the
\* receiver is after the call when it throws.
AfterCall(r) == IF r.ok THEN r.state ELSE r.receiver

CallApplyMove(brawler) ==
    LET r == applyMove(ds, brawler)
    IN  /\ ds' = AfterCall(r)
        /\ last' = [op |-> "move", err |-> r.err]

CallApplyBan(brawler) ==
    LET r == applyBan(ds, brawler)
    IN  /\ ds' = AfterCall(r)
        /\ last' = [op |-> "ban", err |-> r.err]

\* ============================================================= MCTSManager

IdleWorker == [pc |-> "idle", run |-> 0, node |-> 0, result |-> 0]
NoController == [pc |-> "none", run |-> 0, clock |-> 0, next |-> 0]

\* The signals of MCTSManager.  The text of a status or error is kept as a
\* tag; the ranking a result signal carries is kept in the variable ranking.
Signal(kind, text) == [kind |-> kind, text |-> text]
mctsStatusUpdate(text) == Signal("status", text)
mctsIntermediateResult == Signal("intermediate", "")
mctsFinalResult == Signal("final", "")
mctsError(text) == Signal("error", text)
mctsFinished == Signal("finished", "")

\* emit: the log records a run of consecutive "Running MCTS: ..." status
\* updates once.
Emit(l, sig) ==
    IF sig = mctsStatusUpdate("running") /\ l # <<>> /\ l[Len(l)] = sig THEN l
    ELSE Append(l, sig)

\* MCTSManager::isRunning: the controller task has not returned yet.
isRunning == ctrl.pc # "none"

\* QThreadPool::start, called k times for worker tasks of a run: a task runs
\* on a free thread and is queued when every thread is busy.
RECURSIVE StartTasks(_, _, _, _)
StartTasks(p, q, run, k) ==
    IF k = 0 THEN [pool |-> p, queue |-> q]
    ELSE LET free == {t \in DOMAIN p : p[t].pc = "idle"}
         IN  IF free = {} THEN StartTasks(p, Append(q, run), run, k - 1)
             ELSE LET t == CHOOSE x \in free : \A y \in free : x <= y
                  IN  StartTasks([p EXCEPT ![t] = [IdleWorker EXCEPT
                                                     !.pc = "loop", !.run = run]],
                                 q, run, k - 1)

\* The shared_ptr to a run's root is held by the run's worker tasks, running
\* or queued, and by its controller task; the tree is destroyed with the
\* last of them.
Held(run, p, q, c) ==
    \/ \E t \in DOMAIN p : p[t].pc # "idle" /\ p[t].run = run
    \/ run \in SeqToSet(q)
    \/ c.pc # "none" /\ c.run = run

Release(tr, p, q, c) ==
    [run \in DOMAIN tr |-> IF Held(run, p, q, c) THEN tr[run] ELSE <<>>]

\* The states the caller starts a search from: p picks made in a fresh draft
\* and k legal moves left, the other brawlers banned.
RECURSIVE ApplyMoves(_, _)
ApplyMoves(s, picks) ==
    IF picks = <<>> THEN s
    ELSE ApplyMoves(applyMove(s, Head(picks)).state, Tail(picks))

RECURSIVE ApplyBans(_, _)
ApplyBans(s, bans) ==
    IF bans = <<>> THEN s
    ELSE ApplyBans(applyBan(s, Head(bans)).state, Tail(bans))

RootWith(p, k) ==
    ApplyMoves(ApplyBans(FreshDraft(Brawlers), SortedSeq((p + k + 1)..NumBrawlers)),
               [i \in 1..p |-> i])

\* One legal move before the last pick; a complete draft; a draft with no
\* legal move.
RootStates == { RootWith(5, 1), RootWith(6, 0), RootWith(5, 0) }

\* One legal move before the fifth pick: the sixth pick has no brawler left.
StarvedRoots == { RootWith(4, 1) }

\* A variant of startMcts that resets the flag and the counter before it
\* looks at the root state.
startMcts_ResetsFirst(rootState) ==
    /\ mainPc = "idle"
    /\ IF isRunning THEN
           /\ rejects < MaxRejects
           /\ rejects' = rejects + 1
           /\ UNCHANGED <<m_stopRequested, m_totalIterationsDone, trees, runs,
                          pool, queue, ctrl, mainPc, log, ranking, stopSleeps>>
       ELSE IF isComplete(rootState) \/ getLegalMoves(rootState) = <<>> THEN
           /\ m_stopRequested' = FALSE
           /\ m_totalIterationsDone' = 0
           /\ log' = <<mctsFinalResult, mctsFinished>>
           /\ ranking' = <<>>
           /\ UNCHANGED <<trees, runs, pool, queue, ctrl, mainPc, rejects,
                          stopSleeps>>
       ELSE
           /\ runs < MaxRuns
           /\ m_stopRequested' = FALSE
           /\ m_totalIterationsDone' = 0
           /\ runs' = runs + 1
           /\ trees' = [trees EXCEPT ![runs + 1] = <<MCTSNode(rootState, 0, 0)>>]
           /\ LET numThreads == Cardinality(DOMAIN pool)
                  started == StartTasks(pool, queue, runs + 1, numThreads)
              IN  /\ pool' = started.pool
                  /\ queue' = started.queue
           /\ ctrl' = [pc |-> "loop", run |-> runs + 1, clock |-> 0,
                       next |-> IntermediateIntervalTicks]
           /\ mainPc' = "started"
           /\ log' = <<>>
           /\ ranking' = <<>>
           /\ UNCHANGED <<rejects, stopSleeps>>
    /\ UNCHANGED <<draftVars, statsVars>>

\* ------------------------------------------------- the caller's thread
\* MCTSManager::startMcts up to the launch of the controller task; the
\* "MCTS Started..." status follows in StartedStatus.
startMcts(rootState) ==
    /\ mainPc = "idle"
    /\ IF isRunning THEN
           /\ rejects < MaxRejects
           /\ rejects' = rejects + 1
           /\ UNCHANGED <<m_stopRequested, m_totalIterationsDone, trees, runs,
                          pool, queue, ctrl, mainPc, log, ranking, stopSleeps>>
       ELSE IF isComplete(rootState) \/ getLegalMoves(rootState) = <<>> THEN
           /\ log' = <<mctsFinalResult, mctsFinished>>
           /\ ranking' = <<>>
           /\ UNCHANGED <<m_stopRequested, m_totalIterationsDone, trees, runs,
                          pool, queue, ctrl, mainPc, rejects, stopSleeps>>
       ELSE
           /\ runs < MaxRuns
           /\ m_stopRequested' = FALSE
           /\ m_totalIterationsDone' = 0
           /\ runs' = runs + 1
           /\ trees' = [trees EXCEPT ![runs + 1] = <<MCTSNode(rootState, 0, 0)>>]
           /\ LET numThreads == Cardinality(DOMAIN pool)
                  started == StartTasks(pool, queue, runs + 1, numThreads)
              IN  /\ pool' = started.pool
                  /\ queue' = started.queue
           /\ ctrl' = [pc |-> "loop", run |-> runs + 1, clock |-> 0,
                       next |-> IntermediateIntervalTicks]
           /\ mainPc' = "started"
           /\ log' = <<>>
           /\ ranking' = <<>>
           /\ UNCHANGED <<rejects, stopSleeps>>
    /\ UNCHANGED <<draftVars, statsVars>>

\* The last statement of startMcts: emit mctsStatusUpdate("MCTS Started...").
StartedStatus ==
    /\ mainPc = "started"
    /\ mainPc' = "idle"
    /\ log' = Emit(log, mctsStatusUpdate("started"))
    /\ UNCHANGED <<m_stopRequested, m_totalIterationsDone, trees, runs, pool,
                   queue, ctrl, rejects, stopSleeps>>
    /\ UNCHANGED <<ranking, draftVars, statsVars>>

\* MCTSManager::stopMcts, called by the caller's thread.
stopMcts ==
    /\ mainPc = "idle"
    /\ m_stopRequested' = TRUE
    /\ stopSleeps' = IF isRunning /\ stopSleeps = -1 THEN 0 ELSE stopSleeps
    /\ UNCHANGED <<m_totalIterationsDone, trees, runs, pool, queue, ctrl,
                   mainPc, log, rejects>>
    /\ UNCHANGED <<ranking, draftVars, statsVars>>

\* ------------------------------------------------------ a worker thread
InFlight == Cardinality({t \in DOMAIN pool : pool[t].pc \notin {"idle", "loop"}})

\* The worker loop's test finds the stop flag raised: the task returns and
\* the thread takes the next queued task.
WorkerExit(t) ==
    /\ pool[t].pc = "loop"
    /\ m_stopRequested
    /\ LET p == [pool EXCEPT ![t] =
                   IF queue = <<>> THEN IdleWorker
                   ELSE [IdleWorker EXCEPT !.pc = "loop", !.run = Head(queue)]]
           q == IF queue = <<>> THEN queue ELSE Tail(queue)
       IN  /\ pool' = p
           /\ queue' = q
           /\ trees' = Release(trees, p, q, ctrl)
    /\ UNCHANGED <<m_stopRequested, m_totalIterationsDone, runs, ctrl, mainPc,
                   log, rejects, stopSleeps>>
    /\ UNCHANGED <<ranking, draftVars, statsVars>>

\* The worker loop's test finds the flag lowered: runSingleMctsIteration
\* begins at the root.
WorkerBeginWithin(t, limit) ==
    /\ pool[t].pc = "loop"
    /\ ~m_stopRequested
    /\ m_totalIterationsDone + InFlight < limit
    /\ pool' = [pool EXCEPT ![t].pc = "select", ![t].node = 1]
    /\ UNCHANGED <<m_stopRequested, m_totalIterationsDone, trees, runs, queue,
                   ctrl, mainPc, log, rejects, stopSleeps>>
    /\ UNCHANGED <<ranking, draftVars, statsVars>>

WorkerBegin(t) == WorkerBeginWithin(t, MaxIters)

\* One test of the selection loop and, when it holds, one descent.
WorkerSelect(t) ==
    /\ pool[t].pc = "select"
    /\ LET tree == trees[pool[t].run]
           n == tree[pool[t].node]
       IN  IF ~n.isTerminal /\ isFullyExpanded(n)
           THEN \E c \in uctSelectChild(tree, pool[t].node) :
                    pool' = [pool EXCEPT ![t].node = IF c = 0 THEN 1 ELSE c]
           ELSE pool' = [pool EXCEPT ![t].pc = "expand"]
    /\ UNCHANGED <<m_stopRequested, m_totalIterationsDone, trees, runs, queue,
                   ctrl, mainPc, log, rejects, stopSleeps>>
    /\ UNCHANGED <<ranking, draftVars, statsVars>>

\* Expansion of the selected node and the rollout from the node it yields.
WorkerExpand(t) ==
    /\ pool[t].pc = "expand"
    /\ LET run == pool[t].run
           tree == trees[run]
           id == pool[t].node
           e == IF tree[id].isTerminal THEN [tree |-> tree, node |-> 0]
                ELSE expand(tree, id)
           node == IF e.node # 0 THEN e.node ELSE id
       IN  /\ trees' = [trees EXCEPT ![run] = e.tree]
           /\ \E result \in simulateRollout(e.tree[node].state) :
                  pool' = [pool EXCEPT ![t].pc = "visits", ![t].node = node,
                                       ![t].result = result]
    /\ UNCHANGED <<m_stopRequested, m_totalIterationsDone, runs, queue, ctrl,
                   mainPc, log, rejects, stopSleeps>>
    /\ UNCHANGED <<ranking, draftVars, statsVars>>

\* MCTSNode::update, first half: visits.fetch_add(1).
WorkerUpdateVisits(t) ==
    /\ pool[t].pc = "visits"
    /\ trees' = [trees EXCEPT ![pool[t].run][pool[t].node].visits = @ + 1]
    /\ pool' = [pool EXCEPT ![t].pc = "wins"]
    /\ UNCHANGED <<m_stopRequested, m_totalIterationsDone, runs, queue, ctrl,
                   mainPc, log, rejects, stopSleeps>>
    /\ UNCHANGED <<ranking, draftVars, statsVars>>

\* A variant of the second half of update that stores the result instead of
\* adding it.
WorkerUpdateWins_Stores(t) ==
    /\ pool[t].pc = "wins"
    /\ LET run == pool[t].run
           tree == trees[run]
           id == pool[t].node
       IN  /\ trees' = [trees EXCEPT ![run][id].wins =
                                        ResultForNode(tree, id, pool[t].result)]
           /\ IF tree[id].parent # 0
              THEN /\ pool' = [pool EXCEPT ![t].pc = "visits",
                                           ![t].node = tree[id].parent]
                   /\ UNCHANGED m_totalIterationsDone
              ELSE /\ pool' = [pool EXCEPT ![t] = [IdleWorker EXCEPT
                                                     !.pc = "loop", !.run = run]]
                   /\ m_totalIterationsDone' = m_totalIterationsDone + 1
    /\ UNCHANGED <<m_stopRequested, runs, queue, ctrl, mainPc, log, rejects,
                   stopSleeps>>
    /\ UNCHANGED <<ranking, draftVars, statsVars>>
\* MCTSNode::update, second half: atomic_add_double(wins, result); then the
\* step to the parent, and past the root the end of the iteration.
WorkerUpdateWins(t) ==
    /\ pool[t].pc = "wins"
    /\ LET run == pool[t].run
           tree == trees[run]
           id == pool[t].node
       IN  /\ trees' = [trees EXCEPT ![run][id].wins =
                                        @ + ResultForNode(tree, id, pool[t].result)]
           /\ IF tree[id].parent # 0
              THEN /\ pool' = [pool EXCEPT ![t].pc = "visits",
                                           ![t].node = tree[id].parent]
                   /\ UNCHANGED m_totalIterationsDone
              ELSE /\ pool' = [pool EXCEPT ![t] = [IdleWorker EXCEPT
                                                     !.pc = "loop", !.run = run]]
                   /\ m_totalIterationsDone' = m_totalIterationsDone + 1
    /\ UNCHANGED <<m_stopRequested, runs, queue, ctrl, mainPc, log, rejects,
                   stopSleeps>>
    /\ UNCHANGED <<ranking, draftVars, statsVars>>

\* -------------------------------------------------- the controller task
\* A variant whose loop tests only the time limit, not the stop flag.
ControllerLoop_IgnoresStop ==
    /\ ctrl.pc = "loop"
    /\ IF ctrl.clock >= TimeLimitTicks THEN
           /\ log' = Emit(log, mctsStatusUpdate("time limit"))
           /\ m_stopRequested' = TRUE
           /\ ctrl' = [ctrl EXCEPT !.pc = "stopped"]
       ELSE
           /\ log' = Emit(log, mctsStatusUpdate("running"))
           /\ ctrl' = [ctrl EXCEPT !.pc =
                         IF IntermediateIntervalTicks > 0 /\ ctrl.clock >= ctrl.next
                         THEN "intermediate" ELSE "sleep"]
           /\ UNCHANGED m_stopRequested
    /\ UNCHANGED <<m_totalIterationsDone, trees, runs, pool, queue, mainPc,
                   rejects, stopSleeps>>
    /\ UNCHANGED <<ranking, draftVars, statsVars>>

\* A variant without the break after "MCTS Time Limit Reached": the poll
\* goes on to its status update.
ControllerLoop_NoBreak ==
    /\ ctrl.pc = "loop"
    /\ IF m_stopRequested THEN
           /\ ctrl' = [ctrl EXCEPT !.pc = "stopped"]
           /\ UNCHANGED <<m_stopRequested, log>>
       ELSE
           /\ log' = IF ctrl.clock >= TimeLimitTicks
                     THEN Emit(Emit(log, mctsStatusUpdate("time limit")),
                               mctsStatusUpdate("running"))
                     ELSE Emit(log, mctsStatusUpdate("running"))
           /\ m_stopRequested' = (ctrl.clock >= TimeLimitTicks)
           /\ ctrl' = [ctrl EXCEPT !.pc =
                         IF IntermediateIntervalTicks > 0 /\ ctrl.clock >= ctrl.next
                         THEN "intermediate" ELSE "sleep"]
    /\ UNCHANGED <<m_totalIterationsDone, trees, runs, pool, queue, mainPc,
                   rejects, stopSleeps>>
    /\ UNCHANGED <<ranking, draftVars, statsVars>>

\* The test of the controller loop, the time-limit check and the status update.
ControllerLoop ==
    /\ ctrl.pc = "loop"
    /\ IF m_stopRequested THEN
           /\ ctrl' = [ctrl EXCEPT !.pc = "stopped"]
           /\ UNCHANGED <<m_stopRequested, log>>
       ELSE IF ctrl.clock >= TimeLimitTicks THEN
           /\ log' = Emit(log, mctsStatusUpdate("time limit"))
           /\ m_stopRequested' = TRUE
           /\ ctrl' = [ctrl EXCEPT !.pc = "stopped"]
       ELSE
           /\ log' = Emit(log, mctsStatusUpdate("running"))
           /\ ctrl' = [ctrl EXCEPT !.pc =
                         IF IntermediateIntervalTicks > 0 /\ ctrl.clock >= ctrl.next
                         THEN "intermediate" ELSE "sleep"]
           /\ UNCHANGED m_stopRequested
    /\ UNCHANGED <<m_totalIterationsDone, trees, runs, pool, queue, mainPc,
                   rejects, stopSleeps>>
    /\ UNCHANGED <<ranking, draftVars, statsVars>>

\* The intermediate ranking.
ControllerIntermediate ==
    /\ ctrl.pc = "intermediate"
    /\ ranking' \in getMctsResults(trees[ctrl.run])
    /\ log' = Emit(log, mctsIntermediateResult)
    /\ ctrl' = [ctrl EXCEPT !.pc = "sleep",
                            !.next = ctrl.clock + IntermediateIntervalTicks]
    /\ UNCHANGED <<m_stopRequested, m_totalIterationsDone, trees, runs, pool,
                   queue, mainPc, rejects, stopSleeps>>
    /\ UNCHANGED <<draftVars, statsVars>>

\* QThread::msleep(reportIntervalMs) begins.
ControllerSleep ==
    /\ ctrl.pc = "sleep"
    /\ ctrl' = [ctrl EXCEPT !.pc = "sleeping"]
    /\ stopSleeps' = IF stopSleeps >= 0 THEN stopSleeps + 1 ELSE stopSleeps
    /\ UNCHANGED <<m_stopRequested, m_totalIterationsDone, trees, runs, pool,
                   queue, mainPc, log, rejects>>
    /\ UNCHANGED <<ranking, draftVars, statsVars>>

\* The sleep ends; the timer has not gone back.  A sleep is shorter than a
\* tick of the clock.
ControllerWake ==
    /\ ctrl.pc = "sleeping"
    /\ \E now \in ctrl.clock..TimeLimitTicks :
           ctrl' = [ctrl EXCEPT !.pc = "loop", !.clock = now]
    /\ UNCHANGED <<m_stopRequested, m_totalIterationsDone, trees, runs, pool,
                   queue, mainPc, log, rejects, stopSleeps>>
    /\ UNCHANGED <<ranking, draftVars, statsVars>>

\* After the loop: "MCTS Stopped Early" when the time limit was not reached.
ControllerStopped ==
    /\ ctrl.pc = "stopped"
    /\ \E now \in ctrl.clock..TimeLimitTicks :
           /\ ctrl' = [ctrl EXCEPT !.pc = "final", !.clock = now]
           /\ log' = IF m_stopRequested /\ now < TimeLimitTicks
                     THEN Emit(log, mctsStatusUpdate("stopped early"))
                     ELSE log
    /\ UNCHANGED <<m_stopRequested, m_totalIterationsDone, trees, runs, pool,
                   queue, mainPc, rejects, stopSleeps>>
    /\ UNCHANGED <<ranking, draftVars, statsVars>>

\* The final ranking.
ControllerFinal ==
    /\ ctrl.pc = "final"
    /\ ranking' \in getMctsResults(trees[ctrl.run])
    /\ log' = Emit(log, mctsFinalResult)
    /\ ctrl' = [ctrl EXCEPT !.pc = "finish"]
    /\ UNCHANGED <<m_stopRequested, m_totalIterationsDone, trees, runs, pool,
                   queue, mainPc, rejects, stopSleeps>>
    /\ UNCHANGED <<draftVars, statsVars>>

\* An exception inside the try block, and the catch block: mctsError and
\* stopMcts().
ControllerCatch ==
    /\ ctrl.pc \in {"loop", "intermediate", "stopped", "final"}
    /\ log' = Emit(log, mctsError("controller"))
    /\ m_stopRequested' = TRUE
    /\ ctrl' = [ctrl EXCEPT !.pc = "finish"]
    /\ UNCHANGED <<m_totalIterationsDone, trees, runs, pool, queue, mainPc,
                   rejects, stopSleeps>>
    /\ UNCHANGED <<ranking, draftVars, statsVars>>

\* emit mctsFinished().
ControllerFinish ==
    /\ ctrl.pc = "finish"
    /\ log' = Emit(log, mctsFinished)
    /\ ctrl' = [ctrl EXCEPT !.pc = "return"]
    /\ UNCHANGED <<m_stopRequested, m_totalIterationsDone, trees, runs, pool,
                   queue, mainPc, rejects, stopSleeps>>
    /\ UNCHANGED <<ranking, draftVars, statsVars>>

\* The controller task returns: m_controllerFuture is finished.
ControllerReturn ==
    /\ ctrl.pc = "return"
    /\ ctrl' = NoController
    /\ trees' = Release(trees, pool, queue, NoController)
    /\ rejects' = 0
    /\ stopSleeps' = -1
    /\ UNCHANGED <<m_stopRequested, m_totalIterationsDone, runs, pool, queue,
                   mainPc, log, ranking>>
    /\ UNCHANGED <<draftVars, statsVars>>

\* ========================================================= StatsCalculator
\* A double is modelled by the exact rational it stands for: [n, d] in
\* lowest terms with d > 0.
RECURSIVE GCD(_, _)
GCD(a, b) == IF b = 0 THEN a ELSE GCD(b, a % b)

Abs(x) == IF x < 0 THEN -x ELSE x

Rat(n, d) ==
    LET g == GCD(Abs(n), Abs(d))
        sgn == IF d < 0 THEN -1 ELSE 1
    IN  [n |-> sgn * (n \div g), d |-> sgn * (d \div g)]

RZero == Rat(0, 1)
RHalf == Rat(1, 2)
ROne == Rat(1, 1)

\* Sums over the least common denominator and products after cancelling,
\* which keeps the intermediate integers small.
RAdd(x, y) ==
    IF x.d = y.d THEN Rat(x.n + y.n, x.d)
    ELSE LET l == (x.d \div GCD(x.d, y.d)) * y.d
         IN  Rat(x.n * (l \div x.d) + y.n * (l \div y.d), l)
RNeg(x) == [n |-> -x.n, d |-> x.d]
RSub(x, y) ==
    IF x.d = y.d THEN Rat(x.n - y.n, x.d) ELSE RAdd(x, RNeg(y))
RMul(x, y) ==
    IF x.n = 0 \/ y.n = 0 THEN RZero
    ELSE LET g1 == GCD(Abs(x.n), y.d)
             g2 == GCD(Abs(y.n), x.d)
         IN  Rat((x.n \div g1) * (y.n \div g2), (x.d \div g2) * (y.d \div g1))
RDiv(x, y) ==
    IF x.n = 0 /\ y.n # 0 THEN RZero
    ELSE RMul(x, [n |-> IF y.n < 0 THEN -y.d ELSE y.d, d |-> Abs(y.n)])
RLe(x, y) == x.n * y.d <= y.n * x.d
RLt(x, y) == x.n * y.d < y.n * x.d
RMax(x, y) == IF x.n * y.d < y.n * x.d THEN y ELSE x
RMin(x, y) == IF y.n * x.d < x.n * y.d THEN y ELSE x

\* Statements run in order: a statement has left its value before the
\* next one starts.
Sequenced(value, rest) == IF value = value THEN rest ELSE value

\* std::optional<double>.
nullopt == [has |-> FALSE, value |-> RZero]
Some(x) == [has |-> TRUE, value |-> x]
value_or(o, dflt) == IF o.has THEN o.value ELSE dflt

\* ----------------------------------------------------------- AppConfig
\* The defaults of AppConfig.h.
m_defaultSmoothingK == 2
m_defaultMinRank == 10
m_defaultMaxRankConsidered == 22
m_defaultRankWeightScaleDivisor == 3
m_defaultLowPrThreshold == Rat(3, 100)
m_defaultLowConfidenceWrTarget == 0
m_defaultWeights ==
    [winRate |-> Rat(1, 2), synergy |-> Rat(3, 10), counter |-> Rat(2, 5),
     pickRate |-> Rat(1, 5)]

\* The settings file: the values QSettings holds for the keys the
\* statistics read.  No getter but rankWeightScaleDivisor checks its value.
Settings(k, threshold, target) ==
    [ SmoothingK |-> k,
      LowPickRateThreshold |-> threshold,
      LowConfidenceWinRateTarget |-> target,
      MinRank |-> m_defaultMinRank,
      MaxRankConsidered |-> m_defaultMaxRankConsidered,
      RankWeightDivisor |-> Rat(m_defaultRankWeightScaleDivisor, 1),
      Weights |-> m_defaultWeights ]

DefaultSettings ==
    Settings(Rat(m_defaultSmoothingK, 1), m_defaultLowPrThreshold,
             Rat(m_defaultLowConfidenceWrTarget, 1))

smoothingK(c) == c.SmoothingK
minRank(c) == c.MinRank
maxRankConsidered(c) == c.MaxRankConsidered
rankWeightScaleDivisor(c) ==
    IF RLe(c.RankWeightDivisor, RZero) THEN ROne ELSE c.RankWeightDivisor
lowPickRateThreshold(c) == c.LowPickRateThreshold
lowConfidenceWinRateTarget(c) == c.LowConfidenceWinRateTarget
heuristicWeights(c) == c.Weights

IntMax(a, b) == IF a < b THEN b ELSE a
IntMin(a, b) == IF b < a THEN b ELSE a

getRankWeight(c, rank) ==
    LET clampedRank == IntMax(minRank(c), IntMin(rank, maxRankConsidered(c)))
        divisor == rankWeightScaleDivisor(c)
        weight == RDiv(RAdd(Rat(clampedRank - minRank(c), 1), divisor), divisor)
    IN  RMax(Rat(1, 10), weight)

\* ------------------------------------------------------ DataStructures.h
\* A QString is the sequence of its character codes; operator< compares
\* them lexicographically.
Sep == 124

RECURSIVE StrLess(_, _)
StrLess(a, b) ==
    IF b = <<>> THEN FALSE
    ELSE IF a = <<>> THEN TRUE
    ELSE IF Head(a) # Head(b) THEN Head(a) < Head(b)
    ELSE StrLess(Tail(a), Tail(b))

sortedPairKey(b1, b2) ==
    IF StrLess(b1, b2) THEN b1 \o <<Sep>> \o b2 ELSE b2 \o <<Sep>> \o b1

counterPairKey(bUs, bThem) == bUs \o <<Sep>> \o bThem

\* A QHash is a function on its keys; operator[] inserts a
\* default-constructed value for a key that is missing.
EmptyHash == [key \in {} |-> 0]
Contains(h, key) == key \in DOMAIN h
Put(h, key, v) == [x \in DOMAIN h \cup {key} |-> IF x = key THEN v ELSE h[x]]
At(h, key, dflt) == IF Contains(h, key) THEN h[key] ELSE dflt

BrawlerStats(wins, plays) == [wins |-> wins, plays |-> plays]
NewBrawlerStats == BrawlerStats(RZero, RZero)

MapModeStats(brawlerStats, synergyStats, counterStats, totalWeightedPlays) ==
    [ brawlerStats |-> brawlerStats,
      synergyStats |-> synergyStats,
      counterStats |-> counterStats,
      totalWeightedPlays |-> totalWeightedPlays ]
NewMapModeStats == MapModeStats(EmptyHash, EmptyHash, EmptyHash, RZero)

PlayerData(brawlerName, rank) == [brawlerName |-> brawlerName, rank |-> rank]
ProcessedGame(mode, map, winningTeamData, losingTeamData) ==
    [ mode |-> mode, map |-> map,
      winningTeamData |-> winningTeamData, losingTeamData |-> losingTeamData ]

\* ------------------------------------------------------ the accessors
\* getMapModeStats: found is FALSE for the null pointer.
getMapModeStats(stats, mapName, mode) ==
    IF ~Contains(stats, mapName) THEN [found |-> FALSE, stats |-> NewMapModeStats]
    ELSE IF ~Contains(stats[mapName], mode)
         THEN [found |-> FALSE, stats |-> NewMapModeStats]
         ELSE [found |-> TRUE, stats |-> stats[mapName][mode]]

Clamp01(x) == RMax(RZero, RMin(ROne, x))

\* getPickRate without the test of totalWeightedPlays at its entry.
getPickRate_ZeroForNoPlays(stats, c, brawler, mapName, mode) ==
    LET statsPtr == getMapModeStats(stats, mapName, mode)
        totalPlays == statsPtr.stats.totalWeightedPlays
        brawlerPlays ==
            IF Contains(statsPtr.stats.brawlerStats, brawler)
            THEN statsPtr.stats.brawlerStats[brawler].plays
            ELSE RZero
    IN  IF ~statsPtr.found THEN nullopt
        ELSE IF RLe(totalPlays, RZero) THEN Some(RZero)
        ELSE Some(RDiv(brawlerPlays, totalPlays))

getPickRate(stats, c, brawler, mapName, mode) ==
    LET statsPtr == getMapModeStats(stats, mapName, mode)
        totalPlays == statsPtr.stats.totalWeightedPlays
        brawlerPlays ==
            IF Contains(statsPtr.stats.brawlerStats, brawler)
            THEN statsPtr.stats.brawlerStats[brawler].plays
            ELSE RZero
    IN  IF ~statsPtr.found \/ RLe(totalPlays, RZero) THEN nullopt
        ELSE IF RLe(totalPlays, RZero) THEN Some(RZero)
        ELSE Some(RDiv(brawlerPlays, totalPlays))

\* What getWinRate returns for a brawler the bucket has no entry for.
MissingBrawlerRate_NoData(c) == nullopt
MissingBrawlerRate(c) == Some(lowConfidenceWinRateTarget(c))

getWinRate(stats, c, brawler, mapName, mode) ==
    LET statsPtr == getMapModeStats(stats, mapName, mode)
    IN  IF ~statsPtr.found THEN nullopt
        ELSE IF ~Contains(statsPtr.stats.brawlerStats, brawler)
        THEN MissingBrawlerRate(c)
        ELSE
          LET wins == statsPtr.stats.brawlerStats[brawler].wins
              plays == statsPtr.stats.brawlerStats[brawler].plays
              k == smoothingK(c)
          IN  IF RLe(RAdd(plays, k), RZero)
              THEN Some(lowConfidenceWinRateTarget(c))
              ELSE
                LET smoothedWinRate ==
                        RDiv(RAdd(wins, RMul(k, RHalf)), RAdd(plays, k))
                    pickRate == value_or(getPickRate(stats, c, brawler, mapName, mode),
                                         RZero)
                    prThreshold == lowPickRateThreshold(c)
                    target == lowConfidenceWinRateTarget(c)
                    confidenceFactor ==
                        IF RLt(RZero, prThreshold)
                        THEN Clamp01(RDiv(pickRate, prThreshold))
                        ELSE ROne
                    adjustedWinRate ==
                        RAdd(RMul(smoothedWinRate, confidenceFactor),
                             RMul(target, RSub(ROne, confidenceFactor)))
                IN  Some(Clamp01(adjustedWinRate))

\* What getSynergyScore and getCounterScore return for a pair without data.
NeutralScore_Zero == RZero
NeutralScore == RHalf

\* The smoothed score of an entry of synergyStats or counterStats.
PairScore(statsPtr, hash, pairKey, c) ==
    IF ~statsPtr.found THEN NeutralScore
    ELSE IF ~Contains(hash, pairKey) THEN NeutralScore
    ELSE LET wins == hash[pairKey].wins
             plays == hash[pairKey].plays
             k == smoothingK(c)
         IN  IF RLe(RAdd(plays, k), RZero) THEN RHalf
             ELSE Clamp01(RDiv(RAdd(wins, RMul(k, RHalf)), RAdd(plays, k)))

getSynergyScore(stats, c, brawler1, brawler2, mapName, mode) ==
    LET statsPtr == getMapModeStats(stats, mapName, mode)
    IN  PairScore(statsPtr, statsPtr.stats.synergyStats,
                  sortedPairKey(brawler1, brawler2), c)

getCounterScore(stats, c, brawlerUs, brawlerThem, mapName, mode) ==
    LET statsPtr == getMapModeStats(stats, mapName, mode)
    IN  PairScore(statsPtr, statsPtr.stats.counterStats,
                  counterPairKey(brawlerUs, brawlerThem), c)

\* ------------------------------------------------- the cache conversions
\* The copy of one QHash<QString, BrawlerStats>, entry by entry.
CopyEntries_SwapsFields(hash) ==
    [key \in DOMAIN hash |-> BrawlerStats(hash[key].plays, hash[key].wins)]
CopyEntries(hash) ==
    [key \in DOMAIN hash |-> BrawlerStats(hash[key].wins, hash[key].plays)]

\* The two loops over maps and modes: a target entry is created for every
\* (map, mode) the source holds, so a map without modes yields no entry.
CopyTable(source) ==
    [mapName \in {mp \in DOMAIN source : DOMAIN source[mp] # {}} |->
        [modeName \in DOMAIN source[mapName] |->
            MapModeStats(CopyEntries(source[mapName][modeName].brawlerStats),
                         CopyEntries(source[mapName][modeName].synergyStats),
                         CopyEntries(source[mapName][modeName].counterStats),
                         source[mapName][modeName].totalWeightedPlays)]]

\* The m_stats that setStatsFromCacheData leaves.
setStatsFromCacheData(cacheData) == CopyTable(cacheData)

\* The CacheData.stats that getStatsForCache returns.
getStatsForCache(stats) == CopyTable(stats)

\* ------------------------------------------------------- calculateStats
\* A variant that adds the two amounts to the wrong fields.
AddTo_Swapped(hash, key, dWins, dPlays) ==
    LET e == At(hash, key, NewBrawlerStats)
    IN  Put(hash, key, BrawlerStats(RAdd(e.wins, dPlays), RAdd(e.plays, dWins)))

\* atomic_add_double on the wins and plays of hash[key], created if new.
AddTo(hash, key, dWins, dPlays) ==
    LET e == At(hash, key, NewBrawlerStats)
    IN  Put(hash, key, BrawlerStats(RAdd(e.wins, dWins), RAdd(e.plays, dPlays)))

\* A variant of the loop that credits a win to the losers as well.
RECURSIVE AddPlayers_AllWin(_, _, _, _)
AddPlayers_AllWin(brawlerStats, c, teamData, win) ==
    IF teamData = <<>> THEN brawlerStats
    ELSE LET weight == getRankWeight(c, Head(teamData).rank)
             updated == AddTo(brawlerStats, Head(teamData).brawlerName,
                              weight, weight)
         IN  Sequenced(updated, AddPlayers_AllWin(updated, c, Tail(teamData), win))

\* The loop over the winners (win) or the losers of a game.
RECURSIVE AddPlayers(_, _, _, _)
AddPlayers(brawlerStats, c, teamData, win) ==
    IF teamData = <<>> THEN brawlerStats
    ELSE LET weight == getRankWeight(c, Head(teamData).rank)
             updated == AddTo(brawlerStats, Head(teamData).brawlerName,
                              IF win THEN weight ELSE RZero, weight)
         IN  Sequenced(updated, AddPlayers(updated, c, Tail(teamData), win))

\* A variant that leaves the last player of a team out of the total.
RECURSIVE TeamWeight_LastLeftOut(_, _)
TeamWeight_LastLeftOut(c, teamData) ==
    IF Len(teamData) <= 1 THEN RZero
    ELSE RAdd(getRankWeight(c, Head(teamData).rank),
              TeamWeight_LastLeftOut(c, Tail(teamData)))

\* What a team adds to gameTotalWeightContribution.
RECURSIVE TeamWeight(_, _)
TeamWeight(c, teamData) ==
    IF teamData = <<>> THEN RZero
    ELSE RAdd(getRankWeight(c, Head(teamData).rank), TeamWeight(c, Tail(teamData)))

\* A variant that drops the half.
RoundHalf_Down(sum) == sum \div 2

\* static_cast<int>(round((rank1 + rank2) / 2.0)): halves away from zero.
RoundHalf(sum) ==
    IF sum >= 0 THEN (sum + 1) \div 2 ELSE -((1 - sum) \div 2)

RECURSIVE updateTeamSynergyFrom(_, _, _, _, _, _)
updateTeamSynergyFrom(synergyStats, c, teamData, win, i, j) ==
    IF i > Len(teamData) THEN synergyStats
    ELSE IF j > Len(teamData)
    THEN updateTeamSynergyFrom(synergyStats, c, teamData, win, i + 1, i + 2)
    ELSE LET p1 == teamData[i]
             p2 == teamData[j]
             pairKey == sortedPairKey(p1.brawlerName, p2.brawlerName)
             weight == getRankWeight(c, RoundHalf(p1.rank + p2.rank))
             updated ==
                 AddTo(synergyStats, pairKey, IF win THEN weight ELSE RZero, weight)
         IN  Sequenced(updated,
                       updateTeamSynergyFrom(updated, c, teamData, win, i, j + 1))

updateTeamSynergy(synergyStats, c, teamData, win) ==
    updateTeamSynergyFrom(synergyStats, c, teamData, win, 1, 2)

\* A variant that adds the winner's weight to the loser's entry.
RECURSIVE UpdateCounterFrom_WinnerWeight(_, _, _, _, _, _)
UpdateCounterFrom_WinnerWeight(counterStats, c, winners, losers, i, j) ==
    IF i > Len(winners) THEN counterStats
    ELSE IF j > Len(losers)
    THEN UpdateCounterFrom_WinnerWeight(counterStats, c, winners, losers, i + 1, 1)
    ELSE LET winnerData == winners[i]
             loserData == losers[j]
             weightWin == getRankWeight(c, winnerData.rank)
             winLoseKey == counterPairKey(winnerData.brawlerName, loserData.brawlerName)
             loseWinKey == counterPairKey(loserData.brawlerName, winnerData.brawlerName)
             updated ==
                 AddTo(AddTo(counterStats, winLoseKey, weightWin, weightWin),
                       loseWinKey, RZero, weightWin)
         IN  Sequenced(updated,
                       UpdateCounterFrom_WinnerWeight(updated, c, winners, losers, i, j + 1))

\* The loops over winners and losers that update counterStats.
RECURSIVE UpdateCounterFrom(_, _, _, _, _, _)
UpdateCounterFrom(counterStats, c, winners, losers, i, j) ==
    IF i > Len(winners) THEN counterStats
    ELSE IF j > Len(losers)
    THEN UpdateCounterFrom(counterStats, c, winners, losers, i + 1, 1)
    ELSE LET winnerData == winners[i]
             loserData == losers[j]
             weightWin == getRankWeight(c, winnerData.rank)
             weightLose == getRankWeight(c, loserData.rank)
             winLoseKey == counterPairKey(winnerData.brawlerName, loserData.brawlerName)
             loseWinKey == counterPairKey(loserData.brawlerName, winnerData.brawlerName)
             updated ==
                 AddTo(AddTo(counterStats, winLoseKey, weightWin, weightWin),
                       loseWinKey, RZero, weightLose)
         IN  Sequenced(updated,
                       UpdateCounterFrom(updated, c, winners, losers, i, j + 1))

\* The body of the loop over the games.
AddGame(stats, c, game) ==
    LET modes == At(stats, game.map, EmptyHash)
        cur == At(modes, game.mode, NewMapModeStats)
        brawlerStats ==
            AddPlayers(AddPlayers(cur.brawlerStats, c, game.winningTeamData, TRUE),
                       c, game.losingTeamData, FALSE)
        total ==
            RAdd(cur.totalWeightedPlays,
                 RAdd(TeamWeight(c, game.winningTeamData),
                      TeamWeight(c, game.losingTeamData)))
        synergyStats ==
            updateTeamSynergy(
                updateTeamSynergy(cur.synergyStats, c, game.winningTeamData, TRUE),
                c, game.losingTeamData, FALSE)
        counterStats ==
            UpdateCounterFrom(cur.counterStats, c, game.winningTeamData,
                              game.losingTeamData, 1, 1)
    IN  Put(stats, game.map,
            Put(modes, game.mode,
                MapModeStats(brawlerStats, synergyStats, counterStats, total)))

RECURSIVE AddGames(_, _, _)
AddGames(stats, c, processedGames) ==
    IF processedGames = <<>> THEN stats
    ELSE LET updated == AddGame(stats, c, Head(processedGames))
         IN  Sequenced(updated, AddGames(updated, c, Tail(processedGames)))

\* calculateStats without m_stats.clear().
calculateStats_NoClear(stats, c, processedGames) ==
    AddGames(stats, c, processedGames)

\* The m_stats that calculateStats leaves in a calculator that held stats.
calculateStats(stats, c, processedGames) ==
    AddGames(EmptyHash, c, processedGames)

\* ----------------------------------------------------------- Heuristics
\* The sum f[1] + ... + f[n].
RECURSIVE RSumTo(_, _)
RSumTo(f, n) == IF n = 0 THEN RZero ELSE RAdd(RSumTo(f, n - 1), f[n])

\* The largest of start and f[1], ..., f[n].
RECURSIVE RMaxTo(_, _, _)
RMaxTo(start, f, n) == IF n = 0 THEN start ELSE RMax(RMaxTo(start, f, n - 1), f[n])

\* A probability 1 / (1 + exp(-x)) is represented by x: the logistic
\* function is strictly increasing, and 1 - 1 / (1 + exp(-x)) is
\* 1 / (1 + exp(x)).
Logistic(x) == [logit |-> x]
Complement(p) == [logit |-> RSub(RZero, p.logit)]

\* predictWinProbabilityModel with the statistics it reads: the value
\* returned, 0.5 being Logistic(0).
predictWinProbability(team1Brawlers, team2Brawlers, mapName, modeName, stats, c, evalWeights) ==
    IF Len(team1Brawlers) # 3 \/ Len(team2Brawlers) # 3 THEN Logistic(RZero)
    ELSE
      LET wr(team) ==
              [i \in 1..3 |-> value_or(getWinRate(stats, c, team[i], mapName, modeName),
                                       RHalf)]
          t1WR == wr(team1Brawlers)
          t2WR == wr(team2Brawlers)
          t1AvgWR == RDiv(RSumTo(t1WR, 3), Rat(3, 1))
          t2AvgWR == RDiv(RSumTo(t2WR, 3), Rat(3, 1))
          baseWrDiff == RSub(t1AvgWR, t2AvgWR)
          pairs == << <<1, 2>>, <<1, 3>>, <<2, 3>> >>
          calculateAvgSynergyDiff(team) ==
              RDiv(RSumTo([p \in 1..3 |->
                             RSub(getSynergyScore(stats, c, team[pairs[p][1]],
                                                  team[pairs[p][2]], mapName, modeName),
                                  RHalf)], 3),
                   Rat(3, 1))
          synergyDiff == RSub(calculateAvgSynergyDiff(team1Brawlers),
                              calculateAvgSynergyDiff(team2Brawlers))
          \* interaction n of the two loops: b1 = team1[i], b2 = team2[j]
          b1(n) == team1Brawlers[((n - 1) \div 3) + 1]
          b2(n) == team2Brawlers[((n - 1) % 3) + 1]
          t1_vs_t2_diff ==
              [n \in 1..9 |->
                  RSub(getCounterScore(stats, c, b1(n), b2(n), mapName, modeName), RHalf)]
          t2_vs_t1_diff ==
              [n \in 1..9 |->
                  RSub(getCounterScore(stats, c, b2(n), b1(n), mapName, modeName), RHalf)]
          counterAdvAvg == RDiv(RSumTo(t1_vs_t2_diff, 9), Rat(9, 1))
          peakCounterAdv == RSub(RMaxTo(Rat(-1, 1), t1_vs_t2_diff, 9),
                                 RMaxTo(Rat(-1, 1), t2_vs_t1_diff, 9))
          totalScoreDiff ==
              RAdd(RAdd(RMul(evalWeights.winRate, baseWrDiff),
                        RMul(evalWeights.synergy, synergyDiff)),
                   RAdd(RMul(evalWeights.counter, counterAdvAvg),
                        RMul(evalWeights.pickRate, peakCounterAdv)))
          k == Rat(2, 1)
      IN  Sequenced(<<t1WR, t2WR, synergyDiff, t1_vs_t2_diff, t2_vs_t1_diff>>,
                    Logistic(RMul(k, totalScoreDiff)))

\* ------------------------------------------- the pick and ban heuristics
\* The QString a brawler of a draft stands for: "A", "AA", "B", "C", ...,
\* in the order of the brawlers.
QStringOf(brawler) ==
    IF brawler = 1 THEN <<65>> ELSE IF brawler = 2 THEN <<65, 65>> ELSE <<63 + brawler>>

\* A DraftState constructed for a map and a mode.
DraftOn(s, mapName, modeName) == [s EXCEPT !.map = mapName, !.mode = modeName]

\* totalSynScoreDiff / count and totalCtrScoreDiff / count: the average of
\* score(p) - 0.5 over the picks, in their order.
AvgScoreDiff(picks, score(_)) ==
    RDiv(RSumTo([i \in 1..Len(picks) |-> RSub(score(picks[i]), RHalf)], Len(picks)),
         Rat(Len(picks), 1))

\* The body of suggestPickHeuristic's loop: the HeuristicScoreComponents of
\* a legal brawler.
HeuristicScoreComponents(draftState, stats, c, weights, brawler) ==
    LET name == QStringOf(brawler)
        currentTeamPicks ==
            IF draftState.turn = "team1" THEN draftState.team1Picks
                                         ELSE draftState.team2Picks
        opponentPicks ==
            IF draftState.turn = "team1" THEN draftState.team2Picks
                                         ELSE draftState.team1Picks
        wr == value_or(getWinRate(stats, c, name, draftState.map, draftState.mode),
                       RHalf)
        pairWR(teammate) ==
            getSynergyScore(stats, c, name, QStringOf(teammate), draftState.map,
                            draftState.mode)
        matchupWR(opponent) ==
            getCounterScore(stats, c, name, QStringOf(opponent), draftState.map,
                            draftState.mode)
        avgSynDiff ==
            IF currentTeamPicks = <<>> THEN RZero
            ELSE AvgScoreDiff(currentTeamPicks, pairWR)
        avgCtrDiff ==
            IF opponentPicks = <<>> THEN RZero
            ELSE AvgScoreDiff(opponentPicks, matchupWR)
        pr == value_or(getPickRate(stats, c, name, draftState.map, draftState.mode),
                       RZero)
        wrComponent == RMul(weights.winRate, RSub(wr, RHalf))
        synergyComponent == RMul(weights.synergy, avgSynDiff)
        counterComponent == RMul(weights.counter, avgCtrDiff)
        prComponent == RMul(weights.pickRate, pr)
    IN  [ totalScore |-> RAdd(RAdd(RAdd(wrComponent, synergyComponent),
                                   counterComponent), prComponent),
          winRate |-> wr,
          avgSynergy |-> RAdd(RHalf, avgSynDiff),
          avgCounter |-> RAdd(RHalf, avgCtrDiff),
          pickRate |-> pr,
          wrComponent |-> wrComponent,
          synergyComponent |-> synergyComponent,
          counterComponent |-> counterComponent,
          prComponent |-> prComponent ]

\* A variant of the update of the best brawler that keeps the lowest total.
RECURSIVE BestBrawler_Lowest(_, _, _, _, _)
BestBrawler_Lowest(legalMoves, brawlerScores, i, bestBrawler, bestScore) ==
    IF i > Len(legalMoves) THEN bestBrawler
    ELSE LET total == brawlerScores[legalMoves[i]].totalScore
         IN  IF ~bestScore.has \/ RLt(total, bestScore.value)
             THEN BestBrawler_Lowest(legalMoves, brawlerScores, i + 1, legalMoves[i],
                                     Some(total))
             ELSE BestBrawler_Lowest(legalMoves, brawlerScores, i + 1, bestBrawler,
                                     bestScore)

\* The update of bestScore and bestBrawler over the loop, from legal move i
\* on; a bestScore without a value is minus infinity.
RECURSIVE BestBrawler(_, _, _, _, _)
BestBrawler(legalMoves, brawlerScores, i, bestBrawler, bestScore) ==
    IF i > Len(legalMoves) THEN bestBrawler
    ELSE LET total == brawlerScores[legalMoves[i]].totalScore
         IN  IF ~bestScore.has \/ RLt(bestScore.value, total)
             THEN BestBrawler(legalMoves, brawlerScores, i + 1, legalMoves[i],
                              Some(total))
             ELSE BestBrawler(legalMoves, brawlerScores, i + 1, bestBrawler,
                              bestScore)

\* suggestPickHeuristic: the pair returned; brawler 0 is the empty string.
suggestPickHeuristic(draftState, stats, c, weights) ==
    LET legalMoves == getLegalMoves(draftState)
        brawlerScores ==
            [brawler \in SeqToSet(legalMoves) |->
                HeuristicScoreComponents(draftState, stats, c, weights, brawler)]
    IN  IF legalMoves = <<>> THEN [first |-> 0, second |-> EmptyHash]
        ELSE [first |-> BestBrawler(legalMoves, brawlerScores, 1, 0, nullopt),
              second |-> brawlerScores]

\* The orders std::sort may leave the ban candidates in: every arrangement
\* in which no candidate comes after one with a lower second.
SortedCandidates(seq) ==
    LET n == Len(seq)
        perms == { f \in [1..n -> 1..n] : \A i, j \in 1..n : i # j => f[i] # f[j] }
    IN  { [i \in 1..n |-> seq[f[i]]] : f \in
            { g \in perms : \A i, j \in 1..n :
                              i < j => ~RLt(seq[g[i]].second, seq[g[j]].second) } }

\* A variant of the extraction that takes the last candidates.
TopSuggestions_FromTheEnd(banCandidates, numSuggestions) ==
    LET count == IF numSuggestions <= 0 THEN 0
                 ELSE IF numSuggestions < Len(banCandidates) THEN numSuggestions
                 ELSE Len(banCandidates)
    IN  [i \in 1..count |-> banCandidates[Len(banCandidates) - count + i].first]

\* The loop that extracts the first numSuggestions candidates.
TopSuggestions(banCandidates, numSuggestions) ==
    LET count == IF numSuggestions <= 0 THEN 0
                 ELSE IF numSuggestions < Len(banCandidates) THEN numSuggestions
                 ELSE Len(banCandidates)
    IN  [i \in 1..count |-> banCandidates[i].first]

\* suggestBanHeuristic: the sequences it may return.
suggestBanHeuristic(draftState, stats, c, numSuggestions) ==
    LET legalMoves == getLegalMoves(draftState)
        banCandidates ==
            [i \in 1..Len(legalMoves) |->
                [first |-> legalMoves[i],
                 second |-> value_or(getWinRate(stats, c, QStringOf(legalMoves[i]),
                                                draftState.map, draftState.mode),
                                     RZero)]]
    IN  IF legalMoves = <<>> THEN {<<>>}
        ELSE { TopSuggestions(sorted, numSuggestions) :
                 sorted \in SortedCandidates(banCandidates) }
\* ------------------------------------------- the statistics' callers
\* Brawler names: "A", "AA", "B", "C", "D", "E".
BrawlerA == <<65>>
BrawlerAA == <<65, 65>>
BrawlerB == <<66>>
BrawlerC == <<67>>
BrawlerD == <<68>>
BrawlerE == <<69>>

QueryNames == {BrawlerA, BrawlerAA, BrawlerB}
StatMaps == {"m1", "m2"}
StatModes == {"x", "y"}

\* The settings files: the defaults; no smoothing; no pick-rate threshold
\* and one that small tables fall below; targets in and out of [0, 1].
SmoothingKs == {RZero, Rat(m_defaultSmoothingK, 1)}
Thresholds == {RZero, m_defaultLowPrThreshold, RHalf}
Targets == {Rat(m_defaultLowConfidenceWrTarget, 1), RHalf, Rat(3, 2)}
Configs ==
    {Settings(k, threshold, target) :
        k \in SmoothingKs, threshold \in Thresholds, target \in Targets}

\* The tables a cache file holds that main.cpp accepts: the bucket
\* ("m1", "x") with a total, without entries or with one entry for brawler
\* "A", for the synergy pair "A|B" and for the matchup "A|B".
Counts == {Rat(n, 1) : n \in 0..MaxCount}
OneBucket(bucket) == [mapName \in {"m1"} |-> [modeName \in {"x"} |-> bucket]]
CacheTables ==
    {OneBucket(MapModeStats(EmptyHash, EmptyHash, EmptyHash, total)) :
             total \in Counts}
    \cup {OneBucket(MapModeStats(
                        [key \in {BrawlerA} |-> BrawlerStats(wins, plays)],
                        [key \in {sortedPairKey(BrawlerB, BrawlerA)} |->
                            BrawlerStats(wins, plays)],
                        [key \in {counterPairKey(BrawlerA, BrawlerB)} |->
                            BrawlerStats(wins, plays)],
                        total)) :
             wins \in Counts, plays \in Counts, total \in Counts}

\* The matches DataLoader hands over: three against three, ranks below,
\* inside and above [minRank, maxRankConsidered].
TeamABC == <<PlayerData(BrawlerA, 16), PlayerData(BrawlerB, 10), PlayerData(BrawlerC, 13)>>
TeamDEAA == <<PlayerData(BrawlerD, 10), PlayerData(BrawlerE, 10), PlayerData(BrawlerAA, 10)>>
TeamBAE == <<PlayerData(BrawlerB, 25), PlayerData(BrawlerA, 10), PlayerData(BrawlerE, 5)>>
Games ==
    { ProcessedGame("x", "m1", TeamABC, TeamDEAA),
      ProcessedGame("x", "m1", TeamDEAA, TeamBAE),
      ProcessedGame("y", "m1", TeamBAE, TeamABC) }

RECURSIVE SeqsUpTo(_, _)
SeqsUpTo(set, n) ==
    IF n = 0 THEN {<<>>}
    ELSE LET shorter == SeqsUpTo(set, n - 1)
         IN  shorter \cup {Append(s, x) : s \in shorter, x \in set}

GameLists == SeqsUpTo(Games, MaxGames)

Rosters == { <<BrawlerA, BrawlerB, BrawlerC>>, <<BrawlerD, BrawlerE, BrawlerAA>> }

\* The last call: its name, its arguments, whether the calculator held
\* statistics when it was made, and the value returned.
Reply(op, brawler1, brawler2, mapName, mode, value) ==
    [ op |-> op, brawler1 |-> brawler1, brawler2 |-> brawler2,
      mapName |-> mapName, mode |-> mode, games |-> <<>>,
      held |-> m_stats # EmptyHash, value |-> value ]
NoReply ==
    [ op |-> "none", brawler1 |-> <<>>, brawler2 |-> <<>>, mapName |-> "",
      mode |-> "", games |-> <<>>, held |-> FALSE, value |-> nullopt ]

\* main.cpp: CacheUtils::loadCache, then setStatsFromCacheData.
LoadCache(cacheData) ==
    /\ cache' = cacheData
    /\ m_stats' = setStatsFromCacheData(cacheData)
    /\ reply' = Reply("setStatsFromCacheData", <<>>, <<>>, "", "", nullopt)
    /\ UNCHANGED <<m_config, draftVars, mctsVars>>

CallSetStatsFromCacheData ==
    /\ m_stats' = setStatsFromCacheData(cache)
    /\ reply' = Reply("setStatsFromCacheData", <<>>, <<>>, "", "", nullopt)
    /\ UNCHANGED <<m_config, cache, draftVars, mctsVars>>

CallGetStatsForCache ==
    /\ cache' = getStatsForCache(m_stats)
    /\ reply' = Reply("getStatsForCache", <<>>, <<>>, "", "", nullopt)
    /\ UNCHANGED <<m_config, m_stats, draftVars, mctsVars>>

CallCalculateStats(processedGames) ==
    /\ m_stats' = calculateStats(m_stats, m_config, processedGames)
    /\ reply' = [Reply("calculateStats", <<>>, <<>>, "", "", nullopt)
                    EXCEPT !.games = processedGames]
    /\ UNCHANGED <<m_config, cache, draftVars, mctsVars>>

CallGetWinRate(brawler, mapName, mode) ==
    /\ reply' = Reply("getWinRate", brawler, <<>>, mapName, mode,
                      getWinRate(m_stats, m_config, brawler, mapName, mode))
    /\ UNCHANGED <<m_config, m_stats, cache, draftVars, mctsVars>>

CallGetPickRate(brawler, mapName, mode) ==
    /\ reply' = Reply("getPickRate", brawler, <<>>, mapName, mode,
                      getPickRate(m_stats, m_config, brawler, mapName, mode))
    /\ UNCHANGED <<m_config, m_stats, cache, draftVars, mctsVars>>

CallGetSynergyScore(brawler1, brawler2, mapName, mode) ==
    /\ reply' = Reply("getSynergyScore", brawler1, brawler2, mapName, mode,
                      Some(getSynergyScore(m_stats, m_config, brawler1, brawler2,
                                           mapName, mode)))
    /\ UNCHANGED <<m_config, m_stats, cache, draftVars, mctsVars>>

CallGetCounterScore(brawlerUs, brawlerThem, mapName, mode) ==
    /\ reply' = Reply("getCounterScore", brawlerUs, brawlerThem, mapName, mode,
                      Some(getCounterScore(m_stats, m_config, brawlerUs, brawlerThem,
                                           mapName, mode)))
    /\ UNCHANGED <<m_config, m_stats, cache, draftVars, mctsVars>>

\* predictWinProbabilityModel for two rosters; brawler1 and brawler2 hold the
\* rosters, value the logit of the probability returned.
CallPredictWinProbability(team1Brawlers, team2Brawlers, mapName, modeName) ==
    /\ reply' = Reply("predictWinProbability", team1Brawlers, team2Brawlers,
                      mapName, modeName,
                      Some(predictWinProbability(team1Brawlers, team2Brawlers,
                                                 mapName, modeName, m_stats, m_config,
                                                 heuristicWeights(m_config)).logit))
    /\ UNCHANGED <<m_config, m_stats, cache, draftVars, mctsVars>>

\* The last heuristic call: the arguments besides the caller's draft state
\* and the calculator, and the value returned.
HeuristicReply(op, weights, numSuggestions, value) ==
    [ op |-> op, weights |-> weights, numSuggestions |-> numSuggestions,
      value |-> value ]

CallSuggestPickHeuristic(weights) ==
    /\ reply' = HeuristicReply("suggestPickHeuristic", weights, 0,
                               suggestPickHeuristic(ds, m_stats, m_config, weights))
    /\ UNCHANGED <<m_config, m_stats, cache, draftVars, mctsVars>>

CallSuggestBanHeuristic(numSuggestions) ==
    /\ \E suggestions \in suggestBanHeuristic(ds, m_stats, m_config, numSuggestions) :
           reply' = HeuristicReply("suggestBanHeuristic", m_defaultWeights,
                                   numSuggestions, suggestions)
    /\ UNCHANGED <<m_config, m_stats, cache, draftVars, mctsVars>>
\* The state after StatsCalculator(config) with the default settings.
StatsIdle ==
    /\ m_config = DefaultSettings
    /\ m_stats = EmptyHash
    /\ cache = EmptyHash
    /\ reply = NoReply

\* The state after StatsCalculator(config) with some settings file.
StatsInit ==
    /\ m_config \in Configs
    /\ m_stats = EmptyHash
    /\ cache = EmptyHash
    /\ reply = NoReply

\* ================================================================== Init
NoCall == [op |-> "none", err |-> "none"]


DraftInit ==
    /\ ds = FreshDraft(Brawlers)
    /\ last = NoCall

\* The state after the construction of MCTSManager.
MctsInit ==
    /\ m_stopRequested = FALSE
    /\ m_totalIterationsDone = 0
    /\ trees = [run \in 1..MaxRuns |-> <<>>]
    /\ runs = 0
    /\ pool = [t \in 1..NumThreads |-> IdleWorker]
    /\ queue = <<>>
    /\ ctrl = NoController
    /\ mainPc = "idle"
    /\ log = <<>>
    /\ ranking = <<>>
    /\ rejects = 0
    /\ stopSleeps = -1

Init == DraftInit /\ MctsInit /\ StatsIdle

DraftNext ==
    \/ \E b \in Names : CallApplyMove(b)
    \/ \E b \in Names : CallApplyBan(b)

Worker(t) ==
    \/ WorkerExit(t)
    \/ WorkerBegin(t)
    \/ WorkerSelect(t)
    \/ WorkerExpand(t)
    \/ WorkerUpdateVisits(t)
    \/ WorkerUpdateWins(t)

\* The controller task when nothing throws.
ControllerRun ==
    \/ ControllerLoop
    \/ ControllerIntermediate
    \/ ControllerSleep
    \/ ControllerWake
    \/ ControllerStopped
    \/ ControllerFinal
    \/ ControllerFinish
    \/ ControllerReturn

Controller ==
    \/ ControllerRun
    \/ ControllerCatch

Next ==
    \/ \E rootState \in RootStates : startMcts(rootState)
    \/ StartedStatus
    \/ stopMcts
    \/ \E t \in 1..NumThreads : Worker(t)
    \/ Controller

\* The search engine.
Spec == Init /\ [][Next]_vars

\* One search from a root whose only move leaves the sixth pick without a
\* brawler.
FairNext ==
    \/ runs = 0 /\ \E rootState \in StarvedRoots : startMcts(rootState)
    \/ StartedStatus
    \/ stopMcts
    \/ \E t \in 1..NumThreads : Worker(t)
    \/ ControllerRun

\* The pool's threads, the controller's thread and the caller's thread are
\* scheduled by the operating system: each runs when it can.  Nothing throws.
FairSpec ==
    /\ Init
    /\ [][FairNext]_vars
    /\ \A t \in 1..NumThreads : WF_vars(Worker(t))
    /\ WF_vars(ControllerRun)
    /\ WF_vars(StartedStatus)

\* The draft engine alone, from a fresh draft.
DraftSpec == Init /\ [][DraftNext /\ UNCHANGED <<mctsVars, statsVars>>]_vars

\* A cache file is loaded and the accessors are called.
StatsNext ==
    \/ \E cacheData \in CacheTables : LoadCache(cacheData)
    \/ \E brawler \in QueryNames, mapName \in StatMaps, mode \in StatModes :
           CallGetWinRate(brawler, mapName, mode)
    \/ \E brawler \in QueryNames, mapName \in StatMaps, mode \in StatModes :
           CallGetPickRate(brawler, mapName, mode)
    \/ \E brawler1, brawler2 \in QueryNames, mapName \in StatMaps, mode \in StatModes :
           CallGetSynergyScore(brawler1, brawler2, mapName, mode)
    \/ \E brawlerUs, brawlerThem \in QueryNames, mapName \in StatMaps,
           mode \in StatModes :
           CallGetCounterScore(brawlerUs, brawlerThem, mapName, mode)

\* The statistics' accessors on the tables of cache files, under the
\* settings of some settings file.
AccessorInit == DraftInit /\ MctsInit /\ StatsInit

StatsSpec == AccessorInit /\ [][StatsNext]_vars

\* Statistics are built from matches, exported, imported and used to
\* predict.
BuildNext ==
    \/ \E processedGames \in GameLists : CallCalculateStats(processedGames)
    \/ CallGetStatsForCache
    \/ CallSetStatsFromCacheData
    \/ \E team1Brawlers, team2Brawlers \in Rosters, modeName \in StatModes :
           CallPredictWinProbability(team1Brawlers, team2Brawlers, "m1", modeName)

BuildSpec == Init /\ [][BuildNext]_vars

\* The drafts the heuristics are asked about, on map "m1": no pick made and
\* three legal moves; two and three picks made and three legal moves; four
\* picks made and two legal moves; a complete draft with a brawler left; a
\* draft with no brawler left.
HeuristicRoots ==
    { RootWith(0, 3), RootWith(2, 3), RootWith(3, 3), RootWith(4, 2),
      RootWith(6, 0), RootWith(5, 0) }
HeuristicDrafts ==
    { DraftOn(s, "m1", modeName) : s \in HeuristicRoots, modeName \in StatModes }

\* The weights passed: the defaults, no weight at all, and a set with a
\* negative weight.
WeightSets ==
    { m_defaultWeights,
      [winRate |-> RZero, synergy |-> RZero, counter |-> RZero, pickRate |-> RZero],
      [winRate |-> Rat(-1, 2), synergy |-> Rat(3, 10), counter |-> Rat(2, 5),
       pickRate |-> ROne] }

\* The numbers of suggestions asked for; the default is 3.
SuggestionCounts == -1..4

\* A calculator that built its statistics from matches, and a draft.
HeuristicInit ==
    /\ ds \in HeuristicDrafts
    /\ last = NoCall
    /\ MctsInit
    /\ m_config = DefaultSettings
    /\ m_stats \in { calculateStats(EmptyHash, DefaultSettings, processedGames) :
                       processedGames \in GameLists }
    /\ cache = EmptyHash
    /\ reply = NoReply

HeuristicNext ==
    \/ \E weights \in WeightSets : CallSuggestPickHeuristic(weights)
    \/ \E numSuggestions \in SuggestionCounts : CallSuggestBanHeuristic(numSuggestions)

\* The heuristics asked about a draft.
HeuristicSpec == HeuristicInit /\ [][HeuristicNext]_vars
\* A state made with DraftState's public constructor that isValid() accepts
\* and no sequence of applyMove produces: team 1 holds three picks and is on
\* turn at the fourth pick, one brawler is available.
SkewedRoots ==
    { DraftState(Brawlers, 5..NumBrawlers, <<1, 2, 3>>, <<>>, "team1", 4) }

\* One search from such a root: its legal move cannot be applied.
SkewedNext ==
    \/ runs = 0 /\ \E rootState \in SkewedRoots : startMcts(rootState)
    \/ StartedStatus
    \/ stopMcts
    \/ \E t \in 1..NumThreads : Worker(t)
    \/ ControllerRun

SkewedSpec == Init /\ [][SkewedNext]_vars

\* ------------------------------------- the search tree, statement by statement
\* The number of threads of the pool in the searches below.
PoolThreads == 2

\* The roots of those searches: two legal moves before the fifth pick, one
\* legal move before the last pick, and a root whose move cannot be applied.
TreeRoots == { RootWith(4, 2), RootWith(5, 1) } \cup SkewedRoots

\* QMutexLocker locker(&mutex) in expand: the mutex of node id is held by the
\* worker that is inside expand on it.
Locked(run, id) ==
    \E t \in DOMAIN pool :
        pool[t].pc = "expanding" /\ pool[t].run = run /\ pool[t].node = id

\* The test of the selection loop: isTerminal, then isFullyExpanded, which
\* takes the node's mutex.
WorkerTest(t) ==
    /\ pool[t].pc = "select"
    /\ LET n == trees[pool[t].run][pool[t].node]
       IN  IF n.isTerminal THEN pool' = [pool EXCEPT ![t].pc = "expand"]
           ELSE /\ ~Locked(pool[t].run, pool[t].node)
                /\ pool' = [pool EXCEPT ![t].pc =
                              IF isFullyExpanded(n) THEN "uct" ELSE "expand"]
    /\ UNCHANGED <<m_stopRequested, m_totalIterationsDone, trees, runs, queue,
                   ctrl, mainPc, log, rejects, stopSleeps>>
    /\ UNCHANGED <<ranking, draftVars, statsVars>>

\* uctSelectChild, which reads the child list without the mutex, and the
\* descent; a null child sends the selection back to the root.
WorkerDescend(t) ==
    /\ pool[t].pc = "uct"
    /\ \E c \in uctSelectChild(trees[pool[t].run], pool[t].node) :
           pool' = [pool EXCEPT ![t].pc = "select",
                                ![t].node = IF c = 0 THEN 1 ELSE c]
    /\ UNCHANGED <<m_stopRequested, m_totalIterationsDone, trees, runs, queue,
                   ctrl, mainPc, log, rejects, stopSleeps>>
    /\ UNCHANGED <<ranking, draftVars, statsVars>>

\* After the selection loop: a terminal node is rolled out as it is, any
\* other node is expanded, and expand begins by taking the node's mutex.
WorkerEnterExpand(t) ==
    /\ pool[t].pc = "expand"
    /\ LET n == trees[pool[t].run][pool[t].node]
       IN  IF n.isTerminal
           THEN \E result \in simulateRollout(n.state) :
                    pool' = [pool EXCEPT ![t].pc = "visits", ![t].result = result]
           ELSE /\ ~Locked(pool[t].run, pool[t].node)
                /\ pool' = [pool EXCEPT ![t].pc = "expanding"]
    /\ UNCHANGED <<m_stopRequested, m_totalIterationsDone, trees, runs, queue,
                   ctrl, mainPc, log, rejects, stopSleeps>>
    /\ UNCHANGED <<ranking, draftVars, statsVars>>

\* The controller is inside getMctsResults' loop over the root's child list.
Scanning(c) == c.pc \in {"scan", "scanwins", "scanned"}

\* The body of expand under the mutex, the release of the mutex and the
\* rollout from the node expand yields.  An append to the child list the
\* controller is reading leaves the controller's loop with a list that
\* changed under it.
WorkerExpandLocked(t) ==
    /\ pool[t].pc = "expanding"
    /\ LET run == pool[t].run
           id == pool[t].node
           e == expand(trees[run], id)
           node == IF e.node # 0 THEN e.node ELSE id
       IN  /\ trees' = [trees EXCEPT ![run] = e.tree]
           /\ \E result \in simulateRollout(e.tree[node].state) :
                  pool' = [pool EXCEPT ![t].pc = "visits", ![t].node = node,
                                       ![t].result = result]
           /\ ctrl' = IF Scanning(ctrl) /\ ctrl.run = run /\ id = 1 /\ e.node # 0
                      THEN [ctrl EXCEPT !.torn = TRUE]
                      ELSE ctrl
    /\ UNCHANGED <<m_stopRequested, m_totalIterationsDone, runs, queue,
                   mainPc, log, rejects, stopSleeps>>
    /\ UNCHANGED <<ranking, draftVars, statsVars>>

\* What a read through a child list that changed under the loop may yield.
TornVisits == 0..MaxIters
TornWins == { k * Half : k \in 0..(2 * MaxIters) }

\* getMctsResults up to the start of its loop: children.isEmpty(), and the
\* range of the loop, which is taken once.
ControllerScanBegin ==
    /\ ctrl.pc \in {"intermediate", "final"}
    /\ ctrl' = [pc |-> IF trees[ctrl.run][1].children = <<>>
                       THEN "scanned" ELSE "scan",
                run |-> ctrl.run, clock |-> ctrl.clock, next |-> ctrl.next,
                from |-> ctrl.pc, kids |-> trees[ctrl.run][1].children,
                child |-> 1, childVisits |-> 0, results |-> <<>>,
                torn |-> FALSE]
    /\ UNCHANGED <<m_stopRequested, m_totalIterationsDone, trees, runs, pool,
                   queue, mainPc, log, rejects, stopSleeps>>
    /\ UNCHANGED <<ranking, draftVars, statsVars>>

\* The loop's next child, or the end of the loop.
ScanNext(c) ==
    [c EXCEPT !.child = @ + 1,
              !.pc = IF c.child < Len(c.kids) THEN "scan" ELSE "scanned"]

\* int childVisits = child->visits.load(); a child without visits is skipped.
ControllerReadVisits ==
    /\ ctrl.pc = "scan"
    /\ \E childVisits \in IF ctrl.torn THEN TornVisits
                          ELSE {trees[ctrl.run][ctrl.kids[ctrl.child]].visits} :
           ctrl' = IF childVisits > 0
                   THEN [ctrl EXCEPT !.pc = "scanwins", !.childVisits = childVisits]
                   ELSE ScanNext(ctrl)
    /\ UNCHANGED <<m_stopRequested, m_totalIterationsDone, trees, runs, pool,
                   queue, mainPc, log, rejects, stopSleeps>>
    /\ UNCHANGED <<ranking, draftVars, statsVars>>

\* double childWins = child->wins.load(); and the result appended.
ControllerReadWins ==
    /\ ctrl.pc = "scanwins"
    /\ LET c == trees[ctrl.run][ctrl.kids[ctrl.child]]
       IN  \E childWins \in IF ctrl.torn THEN TornWins ELSE {c.wins} :
               ctrl' = ScanNext([ctrl EXCEPT !.results =
                           Append(@, MCTSResult(c.move, ctrl.childVisits, childWins))])
    /\ UNCHANGED <<m_stopRequested, m_totalIterationsDone, trees, runs, pool,
                   queue, mainPc, log, rejects, stopSleeps>>
    /\ UNCHANGED <<ranking, draftVars, statsVars>>

\* The sort and the limit of getMctsResults, and the emit of the ranking.
ControllerScanEnd ==
    /\ ctrl.pc = "scanned"
    /\ ranking' \in { Truncate(r, mctsResultCount) : r \in Sorted(ctrl.results) }
    /\ log' = Emit(log, IF ctrl.from = "final" THEN mctsFinalResult
                        ELSE mctsIntermediateResult)
    /\ ctrl' = [pc |-> IF ctrl.from = "final" THEN "finish" ELSE "sleep",
                run |-> ctrl.run, clock |-> ctrl.clock,
                next |-> IF ctrl.from = "final" THEN ctrl.next
                         ELSE ctrl.clock + IntermediateIntervalTicks]
    /\ UNCHANGED <<m_stopRequested, m_totalIterationsDone, trees, runs, pool,
                   queue, mainPc, rejects, stopSleeps>>
    /\ UNCHANGED <<draftVars, statsVars>>

TreeWorker(t) ==
    \/ WorkerExit(t)
    \/ WorkerBegin(t)
    \/ WorkerTest(t)
    \/ WorkerDescend(t)
    \/ WorkerEnterExpand(t)
    \/ WorkerExpandLocked(t)
    \/ WorkerUpdateVisits(t)
    \/ WorkerUpdateWins(t)

TreeController ==
    \/ ControllerLoop
    \/ ControllerScanBegin
    \/ ControllerReadVisits
    \/ ControllerReadWins
    \/ ControllerScanEnd
    \/ ControllerSleep
    \/ ControllerWake
    \/ ControllerStopped
    \/ ControllerFinish
    \/ ControllerReturn

\* The state after the construction of MCTSManager with a pool of
\* PoolThreads threads.
TreeInit ==
    /\ DraftInit
    /\ StatsIdle
    /\ m_stopRequested = FALSE
    /\ m_totalIterationsDone = 0
    /\ trees = [run \in 1..MaxRuns |-> <<>>]
    /\ runs = 0
    /\ pool = [t \in 1..PoolThreads |-> IdleWorker]
    /\ queue = <<>>
    /\ ctrl = NoController
    /\ mainPc = "idle"
    /\ log = <<>>
    /\ ranking = <<>>
    /\ rejects = 0
    /\ stopSleeps = -1

TreeNext ==
    \/ runs = 0 /\ \E rootState \in TreeRoots : startMcts(rootState)
    \/ StartedStatus
    \/ \E t \in DOMAIN pool : TreeWorker(t)
    \/ TreeController

\* One search by two workers and the controller, the mutex of expand and the
\* reads of getMctsResults taken one at a time.
TreeSpec == TreeInit /\ [][TreeNext]_vars
\* ------------------------------------------------ a search of three iterations
\* The number of iterations the workers of the search below begin.
DeepIters == 3

\* Two legal moves before the fifth pick, one before the last, and one
\* before the fifth that leaves the sixth pick without a brawler.
SelectRoots == { RootWith(4, 2), RootWith(5, 1) } \cup StarvedRoots

DeepWorker(t) ==
    \/ WorkerExit(t)
    \/ WorkerBeginWithin(t, DeepIters)
    \/ WorkerSelect(t)
    \/ WorkerExpand(t)
    \/ WorkerUpdateVisits(t)
    \/ WorkerUpdateWins(t)

SelectNext ==
    \/ runs = 0 /\ \E rootState \in SelectRoots : startMcts(rootState)
    \/ StartedStatus
    \/ \E t \in DOMAIN pool : DeepWorker(t)
    \/ ControllerRun

\* One search by two workers that goes on after the root is fully expanded.
SelectSpec == TreeInit /\ [][SelectNext]_vars
\* ------------------------------------------------ the ranking of a tree
\* The root of a tree after k calls of expand on it.
RECURSIVE Expanded(_, _)
Expanded(tree, k) ==
    IF k = 0 THEN tree ELSE Expanded(expand(tree, 1).tree, k - 1)

\* What a child may have been credited with: visits, and wins of at most 1
\* a visit.
ChildCounts ==
    { c \in [visits : 0..MaxIters, wins : 0..(One * MaxIters)] :
        c.wins <= One * c.visits }

RECURSIVE SumOf(_)
SumOf(counts) ==
    IF counts = <<>> THEN 0 ELSE Head(counts).visits + SumOf(Tail(counts))

\* The root fully expanded, its children credited with counts.
CountedTree(rootState, counts) ==
    LET tree == Expanded(<<MCTSNode(rootState, 0, 0)>>, Len(counts))
    IN  [id \in DOMAIN tree |->
           IF id = 1 THEN [tree[1] EXCEPT !.visits = SumOf(counts)]
           ELSE [tree[id] EXCEPT !.visits = counts[id - 1].visits,
                                 !.wins = counts[id - 1].wins]]

\* Trees over a root with three legal moves before the fourth pick.
RankTrees ==
    { CountedTree(RootWith(3, 3), counts) : counts \in [1..3 -> ChildCounts] }
      \cup { <<MCTSNode(RootWith(3, 3), 0, 0)>> }

\* The values of the setting MctsResultCount.
ResultCounts == { 0, 1, 2, mctsResultCount }

\* getMctsResults on the tree, with a configured result count.
CallGetMctsResults(limit) ==
    /\ \E r \in getMctsResultsWith(trees[1], limit) :
           /\ ranking' = r
           /\ reply' = [op |-> "getMctsResults", limit |-> limit, value |-> r]
    /\ UNCHANGED <<m_stopRequested, m_totalIterationsDone, trees, runs, pool,
                   queue, ctrl, mainPc, log, rejects, stopSleeps>>
    /\ UNCHANGED <<m_config, m_stats, cache, draftVars>>

RankingInit ==
    /\ DraftInit
    /\ StatsIdle
    /\ m_stopRequested = FALSE
    /\ m_totalIterationsDone = 0
    /\ trees \in { [run \in 1..MaxRuns |-> IF run = 1 THEN tree ELSE <<>>] :
                     tree \in RankTrees }
    /\ runs = 1
    /\ pool = [t \in 1..NumThreads |-> IdleWorker]
    /\ queue = <<>>
    /\ ctrl = NoController
    /\ mainPc = "idle"
    /\ log = <<>>
    /\ ranking = <<>>
    /\ rejects = 0
    /\ stopSleeps = -1

RankingNext == \E limit \in ResultCounts : CallGetMctsResults(limit)

\* getMctsResults asked about a tree.
RankingSpec == RankingInit /\ [][RankingNext]_vars
\* ================================================================== claims

PickSet(s) == SeqToSet(s.team1Picks) \cup SeqToSet(s.team2Picks)

\* C1: in every draft state reached from a fresh draft by applyMove and
\* applyBan, each team holds at most 3 picks, at most 6 brawlers are banned,
\* the bans and the two pick lists are pairwise disjoint and repeat no
\* brawler, and available = master - bans - team1 picks - team2 picks.
C1_DraftInvariants ==
    /\ Len(ds.team1Picks) <= 3
    /\ Len(ds.team2Picks) <= 3
    /\ Cardinality(ds.bans) <= 6
    /\ Cardinality(SeqToSet(ds.team1Picks)) = Len(ds.team1Picks)
    /\ Cardinality(SeqToSet(ds.team2Picks)) = Len(ds.team2Picks)
    /\ SeqToSet(ds.team1Picks) \cap SeqToSet(ds.team2Picks) = {}
    /\ ds.bans \cap PickSet(ds) = {}
    /\ ds.available = (ds.master \ ds.bans) \ PickSet(ds)

\* Both teams full after a ban was made.
C1_Witness ==
    /\ Len(ds.team1Picks) = 3
    /\ Len(ds.team2Picks) = 3
    /\ ds.bans # {}
    /\ last.err = "none"

TurnAtPick(pickNumber) ==
    CASE pickNumber \in {1, 4, 5} -> "team1"
      [] pickNumber \in {2, 3, 6} -> "team2"
      [] OTHER -> ""

\* C2: from a fresh draft, whatever bans are interleaved, the team to move at
\* pick-numbers 1..6 is team1, team2, team2, team1, team1, team2, no team
\* is to move afterwards, and isComplete() holds iff the pick-number is 7.
C2_TurnOrder ==
    /\ ds.pickNumber \in 1..7
    /\ ds.pickNumber = Len(ds.team1Picks) + Len(ds.team2Picks) + 1
    /\ ds.turn = TurnAtPick(ds.pickNumber)
    /\ isComplete(ds) <=> ds.pickNumber = 7

\* The sixth pick was made, by team 2, with a ban made on the way.
C2_Witness ==
    /\ ds.pickNumber = 7
    /\ ds.turn = ""
    /\ ds.bans # {}
    /\ last = [op |-> "move", err |-> "none"]

\* The calls the claim says fail do fail, and a legal call succeeds:
\* applyMove and applyBan throw exactly when MoveError and BanError name an
\* error.
CallsAnswerAsClaimed(s) ==
    \A b \in Names :
        /\ isComplete(s) => MoveError(s, b) # "none"
        /\ b \notin s.available =>
               MoveError(s, b) # "none" /\ BanError(s, b) # "none"
        /\ Cardinality(s.bans) >= 6 => BanError(s, b) # "none"
        /\ (b \in s.available /\ ~isComplete(s)) => MoveError(s, b) = "none"
        /\ (b \in s.available /\ Cardinality(s.bans) < 6) =>
               BanError(s, b) = "none"

Count(l, kind) == Cardinality({i \in 1..Len(l) : l[i].kind = kind})
Emitted(sig) == \E i \in 1..Len(log) : log[i] = sig
Iterating(t) == pool[t].pc \notin {"idle", "loop"}

\* C4: at most one run is active: every worker that is executing an
\* iteration works on the tree of the current run.
C4_OneActiveRun ==
    \A t \in DOMAIN pool : Iterating(t) => pool[t].run = runs

\* C5: every start that is not rejected yields exactly one final-ranking
\* notification: never two, and one by the time finished is emitted.
C5_ExactlyOneFinal ==
    /\ Count(log, "final") <= 1
    /\ Emitted(mctsFinished) => Count(log, "final") = 1

C8_SoleMoveRanked ==
    (/\ ctrl.pc \in {"finish", "return"}
     /\ Emitted(mctsFinalResult)
     /\ Emitted(mctsStatusUpdate("time limit"))
     /\ Len(getLegalMoves(trees[ctrl.run][1].state)) = 1)
    => /\ Len(ranking) = 1
       /\ ranking[1].move = getLegalMoves(trees[ctrl.run][1].state)[1]
       /\ ranking[1].visits > 0

\* C9: once the stop flag is raised every worker finishes its iteration and
\* leaves its loop.
C9_StopCompletes ==
    m_stopRequested ~> (\A t \in DOMAIN pool : pool[t].pc = "idle")

\* C10: the flag is lowered only by an accepted startMcts, it is raised
\* while the controller is past its loop, the final ranking is emitted with
\* the flag raised, and finished is the last notification of the run (here:
\* of a run whose controller caught no exception).
C10_RunStateMachine ==
    /\ [](ctrl.pc \in {"stopped", "final", "finish", "return"} => m_stopRequested)
    /\ [](~Emitted(mctsError("controller")) =>
             \A i \in 1..Len(log) : log[i] = mctsFinished => i = Len(log))
    /\ [][(m_stopRequested /\ ~m_stopRequested') => runs' = runs + 1]_vars

\* C11: when the controller task catches an exception the stop flag is
\* raised, exactly one error notification is emitted, and a final ranking
\* is emitted before finished.
C11_ErrorStillYieldsFinal ==
    Emitted(mctsError("controller")) =>
        /\ m_stopRequested
        /\ Cardinality({i \in 1..Len(log) : log[i].kind = "error"}) = 1
        /\ \A j \in 1..Len(log) :
               log[j] = mctsFinished =>
                   \E i \in 1..(j - 1) : log[i] = mctsFinalResult

\* A node none of whose legal moves can be applied: it has no child, and a
\* worker reaches its rollout from it only through a failed expansion.
Inexpandable(n) ==
    /\ ~n.isTerminal
    /\ getLegalMoves(n.state) # <<>>
    /\ \A i \in 1..Len(getLegalMoves(n.state)) :
           MoveError(n.state, getLegalMoves(n.state)[i]) # "none"

\* C12: an iteration whose expansion fails because the popped move cannot
\* be applied adds no visit and no score to any node: a node that only such
\* iterations reach keeps zero visits and zero score.
C12_FailedExpansionAddsNothing ==
    \A run \in 1..MaxRuns : \A id \in 1..Len(trees[run]) :
        Inexpandable(trees[run][id]) =>
            /\ trees[run][id].visits = 0
            /\ trees[run][id].wins = 0

\* ------------------------------------------------------- the statistics
\* The bucket (reply.mapName, reply.mode) of the last query, if m_stats has it.
BucketKnown ==
    /\ reply.mapName \in DOMAIN m_stats
    /\ reply.mode \in DOMAIN m_stats[reply.mapName]
Bucket == m_stats[reply.mapName][reply.mode]

\* C13: whatever the table's non-negative wins and plays and the smoothing
\* constant, a value that getWinRate returns lies within [0, 1].
C13_WinRateInUnitInterval ==
    (reply.op = "getWinRate" /\ reply.value.has) =>
        /\ RLe(RZero, reply.value.value)
        /\ RLe(reply.value.value, ROne)

\* C14: getWinRate returns "no data" if and only if the table has no bucket
\* for the map and mode; for a bucket without an entry for the brawler it
\* returns the configured low-confidence target.
C14_NoDataIffBucketAbsent ==
    reply.op = "getWinRate" =>
        /\ ~reply.value.has <=> ~BucketKnown
        /\ (BucketKnown /\ reply.brawler1 \notin DOMAIN Bucket.brawlerStats) =>
               reply.value = Some(m_config.LowConfidenceWinRateTarget)

\* A bucket that is known and holds entries, but none for the brawler asked
\* about, under a target that is not the default.
C14_Witness ==
    /\ reply.op = "getWinRate"
    /\ BucketKnown
    /\ Bucket.brawlerStats # EmptyHash
    /\ reply.brawler1 \notin DOMAIN Bucket.brawlerStats
    /\ reply.value = Some(RHalf)

\* The entries the last pair query looks its key up in, and the key.
PairEntries ==
    IF reply.op = "getSynergyScore" THEN Bucket.synergyStats ELSE Bucket.counterStats
PairKey ==
    IF reply.op = "getSynergyScore"
    THEN sortedPairKey(reply.brawler1, reply.brawler2)
    ELSE counterPairKey(reply.brawler1, reply.brawler2)

\* C15: getSynergyScore and getCounterScore always return a value, and it
\* is exactly 0.5 when the bucket is unknown or holds no entry for the
\* pair, a brawler paired with itself included.
C15_AbsentPairIsNeutral ==
    reply.op \in {"getSynergyScore", "getCounterScore"} =>
        /\ reply.value.has
        /\ (~BucketKnown \/ PairKey \notin DOMAIN PairEntries) =>
               reply.value.value = RHalf

\* A known bucket with pair entries, asked about a brawler paired with
\* itself, for which it has none.
C15_Witness ==
    /\ reply.op \in {"getSynergyScore", "getCounterScore"}
    /\ BucketKnown
    /\ PairEntries # EmptyHash
    /\ reply.brawler1 = reply.brawler2
    /\ PairKey \notin DOMAIN PairEntries
    /\ reply.value = Some(RHalf)

\* C16: getPickRate returns "no data" exactly when the bucket is unknown or
\* its total weighted plays is zero; otherwise the brawler's plays divided
\* by the total, which is 0 for a brawler without entry.
C16_PickRate ==
    reply.op = "getPickRate" =>
        /\ ~reply.value.has <=>
               (~BucketKnown \/ Bucket.totalWeightedPlays = RZero)
        /\ reply.value.has =>
               /\ reply.brawler1 \in DOMAIN Bucket.brawlerStats =>
                      RMul(reply.value.value, Bucket.totalWeightedPlays)
                          = Bucket.brawlerStats[reply.brawler1].plays
               /\ reply.brawler1 \notin DOMAIN Bucket.brawlerStats =>
                      reply.value.value = RZero

\* A pick rate strictly between 0 and 1 was returned.
C16_Witness ==
    /\ reply.op = "getPickRate"
    /\ reply.value.has
    /\ RLt(RZero, reply.value.value)
    /\ RLt(reply.value.value, ROne)

\* "No data" for a known bucket whose total is zero.
C16_WitnessNoPlays ==
    /\ reply.op = "getPickRate"
    /\ BucketKnown
    /\ ~reply.value.has

\* The (map, mode) buckets of a table.
Buckets(table) ==
    UNION {{<<mapName, modeName>> : modeName \in DOMAIN table[mapName]} :
              mapName \in DOMAIN table}

\* The same buckets, and in every bucket the same brawler, synergy and
\* counter keys with the same wins and plays, and the same total.
SameBuckets(a, b) ==
    /\ Buckets(a) = Buckets(b)
    /\ \A bucket \in Buckets(a) :
         LET x == a[bucket[1]][bucket[2]]
             y == b[bucket[1]][bucket[2]]
             same(h, g) ==
                 /\ DOMAIN h = DOMAIN g
                 /\ \A key \in DOMAIN h :
                        h[key].wins = g[key].wins /\ h[key].plays = g[key].plays
         IN  /\ same(x.brawlerStats, y.brawlerStats)
             /\ same(x.synergyStats, y.synergyStats)
             /\ same(x.counterStats, y.counterStats)
             /\ x.totalWeightedPlays = y.totalWeightedPlays

\* C17: what getStatsForCache exports has the buckets, keys and values of
\* the table, and the table setStatsFromCacheData leaves has those of the
\* data imported: export then import reproduces the table.
C17_ExportImportRoundTrip ==
    /\ reply.op = "getStatsForCache" => SameBuckets(cache, m_stats)
    /\ reply.op = "setStatsFromCacheData" => SameBuckets(m_stats, cache)

\* An exported table with two buckets, three kinds of entries and an entry
\* with no wins was imported.
C17_Witness ==
    /\ reply.op = "setStatsFromCacheData"
    /\ Cardinality(Buckets(m_stats)) = 2
    /\ \E bucket \in Buckets(m_stats) :
         LET x == m_stats[bucket[1]][bucket[2]]
         IN  /\ x.synergyStats # EmptyHash
             /\ \E key \in DOMAIN x.counterStats :
                    x.counterStats[key].wins = RZero /\ x.counterStats[key].plays # RZero

\* C18: the table calculateStats leaves depends on the match list and the
\* settings alone: it is the table a calculator without statistics builds
\* from the same list, also when the calculator held statistics before.
C18_RebuildReplaces ==
    reply.op = "calculateStats" =>
        m_stats = calculateStats(EmptyHash, m_config, reply.games)

\* A calculator that held statistics was rebuilt from a list of matches.
C18_Witness ==
    /\ reply.op = "calculateStats"
    /\ reply.held
    /\ Len(reply.games) = MaxGames
    /\ m_stats # EmptyHash

\* C19: for two complete rosters the probability predicted for (A, B) is
\* one minus the probability predicted for (B, A) on the same map, mode,
\* weights and table: the score differences are each other's negation.
C19_PredictionAntisymmetric ==
    reply.op = "predictWinProbability" =>
        Logistic(reply.value.value) =
            Complement(predictWinProbability(reply.brawler2, reply.brawler1,
                                             reply.mapName, reply.mode, m_stats,
                                             m_config, heuristicWeights(m_config)))

\* ---------------------------------------------------------------- bans
\* C20: a successful applyBan(b) returns a state whose bans are the
\* receiver's bans and b, and whose turn, pick number, team picks, map,
\* mode and master list are the receiver's; the receiver is as it was.
C20_BanFrame ==
    \A brawler \in Names :
        LET r == applyBan(ds, brawler)
        IN  r.ok =>
              /\ r.state.bans = ds.bans \cup {brawler}
              /\ r.state.turn = ds.turn
              /\ r.state.pickNumber = ds.pickNumber
              /\ r.state.team1Picks = ds.team1Picks
              /\ r.state.team2Picks = ds.team2Picks
              /\ r.state.map = ds.map
              /\ r.state.mode = ds.mode
              /\ r.state.master = ds.master
              /\ r.receiver = ds

\* A ban succeeded in the middle of the picks, with team 2 on turn.
C20_Witness ==
    /\ last = [op |-> "ban", err |-> "none"]
    /\ ds.bans # {}
    /\ ds.turn = "team2"
    /\ ds.pickNumber = 3

\* --------------------------------------------------------- legal moves
\* C21: getLegalMoves returns the empty sequence when isComplete() holds,
\* whatever is available, and otherwise the elements of the available set,
\* each once, in ascending order.
C21_LegalMoves ==
    LET legal == getLegalMoves(ds)
    IN  IF isComplete(ds) THEN legal = <<>>
        ELSE /\ SeqToSet(legal) = ds.available
             /\ Len(legal) = Cardinality(ds.available)
             /\ \A i, j \in 1..Len(legal) : i < j => legal[i] < legal[j]

\* The draft is complete and a brawler is still available.
C21_Witness ==
    /\ isComplete(ds)
    /\ ds.available # {}
    /\ last = [op |-> "move", err |-> "none"]

\* ----------------------------------------------------------- heuristics
\* The legal brawlers of the caller's draft.
LegalSet == SeqToSet(getLegalMoves(ds))

\* The total the claim gives a legal brawler: the weighted sum of the
\* win-rate deviation, the average synergy deviation over the teammates,
\* the average counter deviation over the opponents, and the pick rate.
ClaimedTotal(brawler, weights) ==
    LET name == QStringOf(brawler)
        mine == IF ds.turn = "team1" THEN ds.team1Picks ELSE ds.team2Picks
        theirs == IF ds.turn = "team1" THEN ds.team2Picks ELSE ds.team1Picks
        wr == value_or(getWinRate(m_stats, m_config, name, ds.map, ds.mode), RHalf)
        pr == value_or(getPickRate(m_stats, m_config, name, ds.map, ds.mode), RZero)
        syn == [i \in 1..Len(mine) |->
                   RSub(getSynergyScore(m_stats, m_config, name, QStringOf(mine[i]),
                                        ds.map, ds.mode), RHalf)]
        ctr == [i \in 1..Len(theirs) |->
                   RSub(getCounterScore(m_stats, m_config, name, QStringOf(theirs[i]),
                                        ds.map, ds.mode), RHalf)]
        avg(f, n) == IF n = 0 THEN RZero ELSE RDiv(RSumTo(f, n), Rat(n, 1))
    IN  RAdd(RAdd(RMul(weights.winRate, RSub(wr, RHalf)),
                  RMul(weights.synergy, avg(syn, Len(mine)))),
             RAdd(RMul(weights.counter, avg(ctr, Len(theirs))),
                  RMul(weights.pickRate, pr)))

\* C22: with a legal move, suggestPickHeuristic returns a legal brawler
\* whose total is at least the total of every legal brawler, and a breakdown
\* with an entry for every legal brawler and no other, whose totals are the
\* weighted sums; without a legal move it returns no brawler and an empty
\* breakdown.
C22_SuggestPick ==
    reply.op = "suggestPickHeuristic" =>
        LET best == reply.value.first
            brawlerScores == reply.value.second
        IN  IF LegalSet = {} THEN best = 0 /\ brawlerScores = EmptyHash
            ELSE /\ best \in LegalSet
                 /\ DOMAIN brawlerScores = LegalSet
                 /\ \A brawler \in LegalSet :
                      /\ brawlerScores[brawler].totalScore
                           = ClaimedTotal(brawler, reply.weights)
                      /\ RLe(ClaimedTotal(brawler, reply.weights),
                             ClaimedTotal(best, reply.weights))

\* A pick was suggested to a team with a teammate and two opponents, and
\* the suggestion is not the first legal brawler but one with a strictly
\* higher total.
C22_Witness ==
    /\ reply.op = "suggestPickHeuristic"
    /\ Len(ds.team1Picks) = 1 /\ Len(ds.team2Picks) = 2
    /\ reply.value.first # getLegalMoves(ds)[1]
    /\ RLt(reply.value.second[getLegalMoves(ds)[1]].totalScore,
           reply.value.second[reply.value.first].totalScore)

\* The win rate suggestBanHeuristic ranks a brawler by.
BanRate(brawler) ==
    value_or(getWinRate(m_stats, m_config, QStringOf(brawler), ds.map, ds.mode), RZero)

\* C23: suggestBanHeuristic returns min(n, number of legal moves) distinct
\* legal brawlers, none for n <= 0, in non-increasing order of win rate (0
\* without data), and no legal brawler left out has a strictly higher win
\* rate than one returned.
C23_SuggestBan ==
    reply.op = "suggestBanHeuristic" =>
        LET suggestions == reply.value
            n == reply.numSuggestions
            expected == IF n <= 0 THEN 0
                        ELSE IF n < Cardinality(LegalSet) THEN n
                        ELSE Cardinality(LegalSet)
        IN  /\ Len(suggestions) = expected
            /\ SeqToSet(suggestions) \subseteq LegalSet
            /\ Cardinality(SeqToSet(suggestions)) = Len(suggestions)
            /\ \A i, j \in 1..Len(suggestions) :
                   i < j => RLe(BanRate(suggestions[j]), BanRate(suggestions[i]))
            /\ \A out \in LegalSet \ SeqToSet(suggestions) :
                   \A kept \in SeqToSet(suggestions) : RLe(BanRate(out), BanRate(kept))

\* Two of three legal brawlers were suggested, the first with a strictly
\* higher win rate than the second, and the brawler left out is not the last
\* legal move.
C23_Witness ==
    /\ reply.op = "suggestBanHeuristic"
    /\ reply.numSuggestions = 2
    /\ Cardinality(LegalSet) = 3
    /\ Len(reply.value) = 2
    /\ RLt(BanRate(reply.value[2]), BanRate(reply.value[1]))
    /\ getLegalMoves(ds)[3] \in SeqToSet(reply.value)

\* C24: while a run's tree exists, no step lowers the visit count or the
\* cumulative score of any of its nodes and no step removes a node, so the
\* total visit count never decreases; this holds for the steps of an
\* iteration whose expansion yields no node as for any other.
C24_CountsNeverDecrease ==
    [][\A run \in DOMAIN trees :
          (trees[run] # <<>> /\ trees'[run] # <<>>) =>
              \A id \in DOMAIN trees[run] :
                  /\ id \in DOMAIN trees'[run]
                  /\ trees'[run][id].visits >= trees[run][id].visits
                  /\ trees'[run][id].wins >= trees[run][id].wins]_vars

\* Two iterations whose expansion yielded no node have both been counted at
\* the root: the second added to what the first had left.
C24_Witness ==
    \E run \in DOMAIN trees :
        /\ trees[run] # <<>>
        /\ trees[run][1].children = <<>>
        /\ trees[run][1].untriedMoves = <<>>
        /\ trees[run][1].visits = 2
        /\ trees[run][1].wins = 2 * Half

\* The moves of the children of node id, in the order of the child list.
ChildMoves(tree, id) ==
    [i \in 1..Len(tree[id].children) |-> tree[tree[id].children[i]].move]

\* C25: in every state of a search by concurrent workers and for every node,
\* no two children carry the same move, no move is twice in the untried
\* pool, every child's move and every untried move is a legal move of the
\* node's state, no child's move is in the pool, and a child holds the state
\* its move leads to.
C25_OneChildPerMove ==
    \A run \in DOMAIN trees : \A id \in DOMAIN trees[run] :
        LET tree == trees[run]
            n == tree[id]
            moves == ChildMoves(tree, id)
            legal == SeqToSet(getLegalMoves(n.state))
        IN  /\ \A i, j \in DOMAIN moves : i # j => moves[i] # moves[j]
            /\ \A i, j \in DOMAIN n.untriedMoves :
                   i # j => n.untriedMoves[i] # n.untriedMoves[j]
            /\ SeqToSet(moves) \subseteq legal
            /\ SeqToSet(n.untriedMoves) \subseteq legal
            /\ SeqToSet(moves) \cap SeqToSet(n.untriedMoves) = {}
            /\ \A i \in DOMAIN moves :
                   LET c == tree[n.children[i]]
                   IN  /\ c.parent = id
                       /\ c.state = applyMove(n.state, c.move).state

\* Two workers began at the root before either iteration was counted, each
\* took a move of the root's pool, and each is backpropagating from its own
\* child.
C25_Witness ==
    \E run \in DOMAIN trees : \E t, u \in DOMAIN pool :
        /\ trees[run] # <<>>
        /\ Len(trees[run][1].children) = 2
        /\ trees[run][1].untriedMoves = <<>>
        /\ m_totalIterationsDone = 0
        /\ t # u
        /\ pool[t].pc = "visits" /\ pool[u].pc = "visits"
        /\ pool[t].node = trees[run][1].children[1]
        /\ pool[u].node = trees[run][1].children[2]
        /\ trees[run][pool[t].node].move # trees[run][pool[u].node].move

\* The turn at the parent of node id, and for the root the root's own turn,
\* read from the tree itself.
CreditedTurn(tree, id) ==
    IF id = 1 THEN tree[1].state.turn ELSE tree[tree[id].parent].state.turn

\* The nodes of tree whose visits or wins differ in after.
Touched(tree, after) ==
    { id \in DOMAIN tree : \/ after[id].visits # tree[id].visits
                           \/ after[id].wins # tree[id].wins }

\* C26: backpropagation starts at the node the rollout ran from; a step
\* that changes a count of an existing node is a step of one worker's update
\* on the node it stands at: first the visits grow by 1, then the wins grow
\* by r when the turn at the node's parent (for the root, the root's own
\* turn) is team1 and by 1 - r otherwise; after that the worker stands at the
\* node's parent, or past the root its iteration is over.  So one iteration
\* updates each node of the parent chain once and no other node.
C26_Backpropagation ==
    [][\A run \in DOMAIN trees :
          (trees[run] # <<>> /\ trees'[run] # <<>>) =>
              LET tree == trees[run]
                  after == trees'[run]
              IN  /\ Touched(tree, after) # {} =>
                      \E t \in DOMAIN pool :
                          LET id == pool[t].node
                              r == pool[t].result
                          IN  /\ pool[t].run = run
                              /\ Touched(tree, after) = {id}
                              /\ \A u \in DOMAIN pool \ {t} : pool'[u] = pool[u]
                              /\ \/ /\ pool[t].pc = "visits"
                                    /\ after[id].visits = tree[id].visits + 1
                                    /\ after[id].wins = tree[id].wins
                                    /\ pool'[t] = [pool[t] EXCEPT !.pc = "wins"]
                                 \/ /\ pool[t].pc = "wins"
                                    /\ after[id].visits = tree[id].visits
                                    /\ after[id].wins = tree[id].wins +
                                           (IF CreditedTurn(tree, id) = "team1"
                                            THEN r ELSE One - r)
                                    /\ IF id = 1
                                       THEN pool'[t].pc = "loop"
                                       ELSE /\ pool'[t].pc = "visits"
                                            /\ pool'[t].node = tree[id].parent
                                            /\ pool'[t].result = r
                  /\ \A t \in DOMAIN pool :
                         (pool[t].run = run /\ pool[t].pc \notin {"visits", "wins"}
                            /\ pool'[t].pc = "visits") =>
                             /\ pool'[t].node \in DOMAIN after
                             /\ pool'[t].result \in simulateRollout(after[pool'[t].node].state)]_vars

\* A worker that rolled out a child of a root on team2's turn with result r
\* has credited the child with 1 - r and now credits the root: the
\* backpropagation has stepped from the simulation node to its parent.
C26_Witness ==
    \E run \in DOMAIN trees : \E t \in DOMAIN pool :
        /\ trees[run] # <<>>
        /\ pool[t].run = run
        /\ pool[t].pc = "wins"
        /\ pool[t].node = 1
        /\ trees[run][1].state.turn = "team2"
        /\ Len(trees[run]) = 2
        /\ trees[run][2].visits = 1
        /\ trees[run][2].wins = One - pool[t].result
        /\ pool[t].result = One
        /\ m_totalIterationsDone = 0

\* The worker tasks of a run that are inside runSingleMctsIteration.
IteratingWorkers(run) ==
    { t \in DOMAIN pool : pool[t].run = run /\ pool[t].pc \notin {"idle", "loop"} }

\* C27: when the controller has just emitted the final ranking of its run, no
\* worker of that run is inside an iteration.
C27_NoIterationInFlightAtFinal ==
    (/\ ctrl.pc = "finish"
     /\ log # <<>>
     /\ log[Len(log)] = mctsFinalResult) => IteratingWorkers(ctrl.run) = {}

\* Worker t is inside expand on node id of a run, holds the node's mutex and
\* is about to append a child to the node's child list.
Appending(t, run, id) ==
    /\ pool[t].pc = "expanding"
    /\ pool[t].run = run
    /\ pool[t].node = id
    /\ expand(trees[run], id).node # 0

\* No worker is in uctSelectChild on a node, or inside expand on it, while
\* another worker is inside expand appending to the node's child list.
NoWorkerReadsDuringAppend ==
    \A run \in DOMAIN trees : \A t \in DOMAIN pool : \A id \in DOMAIN trees[run] :
        Appending(t, run, id) =>
            \A u \in DOMAIN pool \ {t} :
                ~(pool[u].run = run /\ pool[u].node = id
                    /\ pool[u].pc \in {"uct", "expanding"})

\* The controller is not in getMctsResults' loop over the root's children
\* while a worker is inside expand appending to that list.
NoControllerReadDuringAppend ==
    \A run \in DOMAIN trees : \A t \in DOMAIN pool :
        (trees[run] # <<>> /\ Appending(t, run, 1)) =>
            ~(ctrl.run = run /\ ctrl.pc \in {"scan", "scanwins"})

\* C28: no thread reads a node's child list while another thread is inside
\* expand appending to it: not a worker in uctSelectChild on the node, and
\* not the controller in its intermediate or final ranking over the root's
\* children; and at most one worker is inside expand on a node.
C28_NoReadDuringAppend ==
    NoWorkerReadsDuringAppend /\ NoControllerReadDuringAppend

\* C29: every result the controller builds for a ranking has a win rate
\* within [0,1]: the cumulative score read for a child is at least 0 and at
\* most the visit count read for it.  Stated for the loops whose child list
\* did not change under them, which is the least the claim asks.
C29_WinRateWithinBounds ==
    (Scanning(ctrl) /\ ~ctrl.torn) =>
        \A i \in DOMAIN ctrl.results :
            /\ ctrl.results[i].wins >= 0
            /\ ctrl.results[i].wins <= One * ctrl.results[i].visits

RECURSIVE SumVisits(_, _)
SumVisits(tree, kids) ==
    IF kids = <<>> THEN 0
    ELSE tree[Head(kids)].visits + SumVisits(tree, Tail(kids))

\* Every worker task of a run has returned: none runs on a pool thread and
\* none waits in the pool's queue.
WorkersStopped(run) ==
    /\ \A t \in DOMAIN pool : pool[t].pc # "idle" => pool[t].run # run
    /\ run \notin SeqToSet(queue)

\* C30: once all workers of the current run have stopped, the root's visit
\* count is m_totalIterationsDone, the visit count of every node is the sum
\* of its children's visit counts plus a number of rollouts (at least 0)
\* started at the node itself, and its cumulative score is a sum of that many
\* results, each between 0 and 1.
C30_NoLostIncrement ==
    (runs > 0 /\ trees[runs] # <<>> /\ WorkersStopped(runs)) =>
        LET tree == trees[runs]
        IN  /\ tree[1].visits = m_totalIterationsDone
            /\ \A id \in DOMAIN tree :
                   /\ tree[id].visits >= SumVisits(tree, tree[id].children)
                   /\ tree[id].wins >= 0
                   /\ tree[id].wins <= One * tree[id].visits

\* Worker t's selection moved from one node to another in this step.
SelectionMoved(t) ==
    /\ pool[t].pc = "select"
    /\ pool'[t].pc = "select"
    /\ pool'[t].node # pool[t].node

\* The node selection moved to is a child of node id with maximal UCT score
\* when the node has a visit, an unvisited child outranking every visited
\* one, and some child of the node when it has none.
SelectedChild(tree, id, c) ==
    LET n == tree[id]
    IN  /\ \E i \in DOMAIN n.children : n.children[i] = c
        /\ n.visits >= 1 =>
               /\ \A i \in DOMAIN n.children :
                      UctScore(n.visits, tree[n.children[i]])
                          <= UctScore(n.visits, tree[c])
               /\ tree[c].visits > 0 =>
                      \A i \in DOMAIN n.children : tree[n.children[i]].visits > 0

C32_Ranking ==
    reply.op = "getMctsResults" =>
        LET tree == trees[1]
            kids == tree[1].children
            r == reply.value
            visited == { i \in DOMAIN kids : tree[kids[i]].visits > 0 }
        IN  /\ ranking = r
            /\ \A i \in DOMAIN r :
                   /\ r[i].visits > 0
                   /\ \E k \in visited :
                          /\ tree[kids[k]].move = r[i].move
                          /\ tree[kids[k]].visits = r[i].visits
                          /\ tree[kids[k]].wins = r[i].wins
                   /\ \E j \in DOMAIN getLegalMoves(tree[1].state) :
                          getLegalMoves(tree[1].state)[j] = r[i].move
            /\ \A i, j \in DOMAIN r : i # j => r[i].move # r[j].move
            /\ \A i, j \in DOMAIN r :
                   i < j => \/ r[i].visits > r[j].visits
                            \/ /\ r[i].visits = r[j].visits
                               /\ r[i].wins >= r[j].wins
            /\ Len(r) <= reply.limit
            /\ Len(r) = IF Cardinality(visited) < reply.limit
                        THEN Cardinality(visited) ELSE reply.limit

\* A ranking of two entries cut from three visited children, the first with
\* more visits and a lower win rate than the second.
C32_Witness ==
    /\ reply.op = "getMctsResults"
    /\ reply.limit = 2
    /\ Len(ranking) = 2
    /\ \A id \in 2..4 : trees[1][id].visits > 0
    /\ ranking[1].visits > ranking[2].visits
    /\ ranking[1].wins * ranking[2].visits < ranking[2].wins * ranking[1].visits

\* The games of a list that were played on a map in a mode.
RECURSIVE GamesOf(_, _, _)
GamesOf(games, mapName, modeName) ==
    IF games = <<>> THEN <<>>
    ELSE (IF Head(games).map = mapName /\ Head(games).mode = modeName
          THEN <<Head(games)>> ELSE <<>>)
         \o GamesOf(Tail(games), mapName, modeName)

\* The sum of the rank-weights of a brawler's appearances in a team.
RECURSIVE AppearanceWeight(_, _, _)
AppearanceWeight(c, teamData, brawler) ==
    IF teamData = <<>> THEN RZero
    ELSE RAdd(IF Head(teamData).brawlerName = brawler
              THEN getRankWeight(c, Head(teamData).rank) ELSE RZero,
              AppearanceWeight(c, Tail(teamData), brawler))

\* Over games: the weights of a brawler's winning appearances, and of all.
RECURSIVE WonWeight(_, _, _)
WonWeight(c, games, brawler) ==
    IF games = <<>> THEN RZero
    ELSE RAdd(AppearanceWeight(c, Head(games).winningTeamData, brawler),
              WonWeight(c, Tail(games), brawler))

RECURSIVE PlayedWeight(_, _, _)
PlayedWeight(c, games, brawler) ==
    IF games = <<>> THEN RZero
    ELSE RAdd(RAdd(AppearanceWeight(c, Head(games).winningTeamData, brawler),
                   AppearanceWeight(c, Head(games).losingTeamData, brawler)),
              PlayedWeight(c, Tail(games), brawler))

\* The brawlers of a team and of the games of a list.
TeamNames(teamData) == { teamData[i].brawlerName : i \in DOMAIN teamData }
GameNames(games) ==
    UNION { TeamNames(games[g].winningTeamData) \cup TeamNames(games[g].losingTeamData)
            : g \in DOMAIN games }

\* The table holds a bucket for exactly the (map, mode) pairs of the games.
BucketsOfGames(stats, games) ==
    /\ DOMAIN stats = { games[g].map : g \in DOMAIN games }
    /\ \A mapName \in DOMAIN stats :
           DOMAIN stats[mapName] =
               { games[g].mode : g \in { h \in DOMAIN games : games[h].map = mapName } }

\* C33: after a build the table has a bucket for every (map, mode) of the
\* games, and in it an entry for every brawler of the bucket's games whose
\* plays is the sum of the rank-weights of all its appearances and whose wins
\* is the sum of the rank-weights of its appearances in winning teams.
C33_BrawlerSums ==
    reply.op = "calculateStats" =>
        /\ BucketsOfGames(m_stats, reply.games)
        /\ \A mapName \in DOMAIN m_stats : \A modeName \in DOMAIN m_stats[mapName] :
               LET games == GamesOf(reply.games, mapName, modeName)
                   bucket == m_stats[mapName][modeName]
               IN  /\ DOMAIN bucket.brawlerStats = GameNames(games)
                   /\ \A brawler \in GameNames(games) :
                          /\ bucket.brawlerStats[brawler].plays =
                                 PlayedWeight(m_config, games, brawler)
                          /\ bucket.brawlerStats[brawler].wins =
                                 WonWeight(m_config, games, brawler)

\* A bucket built from two games in which brawler "A" won once and lost
\* once, at different ranks.
C33_Witness ==
    /\ reply.op = "calculateStats"
    /\ Len(reply.games) = 2
    /\ "m1" \in DOMAIN m_stats
    /\ "x" \in DOMAIN m_stats["m1"]
    /\ Len(GamesOf(reply.games, "m1", "x")) = 2
    /\ BrawlerA \in DOMAIN m_stats["m1"]["x"].brawlerStats
    /\ LET e == m_stats["m1"]["x"].brawlerStats[BrawlerA]
       IN  /\ e.wins = getRankWeight(m_config, 16)
           /\ e.plays = RAdd(getRankWeight(m_config, 16), getRankWeight(m_config, 10))

\* The cross pairs of a game: a winner and a loser.
CrossPairs(game) ==
    { <<i, j>> : i \in DOMAIN game.winningTeamData, j \in DOMAIN game.losingTeamData }

\* The sum of weight[x] over the elements x of a finite set.
RECURSIVE RSumOver(_, _)
RSumOver(set, weight) ==
    IF set = {} THEN RZero
    ELSE LET x == CHOOSE y \in set : TRUE
         IN  RAdd(weight[x], RSumOver(set \ {x}, weight))

\* What the cross pairs of a game give the counter entry of us against them:
\* as winners against losers the winner's weight in wins and plays, as
\* losers against winners the loser's weight in plays.
CounterWins(c, game, us, them) ==
    LET pairs == { p \in CrossPairs(game) :
                     /\ game.winningTeamData[p[1]].brawlerName = us
                     /\ game.losingTeamData[p[2]].brawlerName = them }
    IN  RSumOver(pairs, [p \in pairs |->
                           getRankWeight(c, game.winningTeamData[p[1]].rank)])

CounterLosses(c, game, us, them) ==
    LET pairs == { p \in CrossPairs(game) :
                     /\ game.losingTeamData[p[2]].brawlerName = us
                     /\ game.winningTeamData[p[1]].brawlerName = them }
    IN  RSumOver(pairs, [p \in pairs |->
                           getRankWeight(c, game.losingTeamData[p[2]].rank)])

RECURSIVE CounterWinsIn(_, _, _, _)
CounterWinsIn(c, games, us, them) ==
    IF games = <<>> THEN RZero
    ELSE RAdd(CounterWins(c, Head(games), us, them),
              CounterWinsIn(c, Tail(games), us, them))

RECURSIVE CounterLossesIn(_, _, _, _)
CounterLossesIn(c, games, us, them) ==
    IF games = <<>> THEN RZero
    ELSE RAdd(CounterLosses(c, Head(games), us, them),
              CounterLossesIn(c, Tail(games), us, them))

\* The ordered pairs of brawlers that met as winner and loser in the games.
Matchups(games) ==
    UNION { { <<games[g].winningTeamData[p[1]].brawlerName,
                games[g].losingTeamData[p[2]].brawlerName>> : p \in CrossPairs(games[g]) }
            : g \in DOMAIN games }

\* C34, amended: after a build every counter entry us-vs-them of a bucket
\* holds in wins the winners' weights of the cross pairs in which us won
\* against them and in plays these plus the losers' weights of the cross
\* pairs in which us lost against them; the entries of a pair in its two
\* orders are distinct when the two brawlers are, and one entry when the
\* same brawler is on both teams.
C34_CounterSums ==
    reply.op = "calculateStats" =>
        \A mapName \in DOMAIN m_stats : \A modeName \in DOMAIN m_stats[mapName] :
            LET games == GamesOf(reply.games, mapName, modeName)
                counterStats == m_stats[mapName][modeName].counterStats
                met == Matchups(games)
            IN  /\ DOMAIN counterStats =
                       { counterPairKey(m[1], m[2]) : m \in met }
                         \cup { counterPairKey(m[2], m[1]) : m \in met }
                /\ \A m \in met :
                       /\ (counterPairKey(m[1], m[2]) # counterPairKey(m[2], m[1]))
                              <=> (m[1] # m[2])
                       /\ \A o \in { m, <<m[2], m[1]>> } :
                              LET e == counterStats[counterPairKey(o[1], o[2])]
                              IN  /\ e.wins = CounterWinsIn(m_config, games, o[1], o[2])
                                  /\ e.plays =
                                         RAdd(CounterWinsIn(m_config, games, o[1], o[2]),
                                              CounterLossesIn(m_config, games, o[1], o[2]))

\* C34, as stated: the two entries of every cross pair are distinct.
C34_DistinctBuckets ==
    reply.op = "calculateStats" =>
        \A m \in Matchups(reply.games) :
            counterPairKey(m[1], m[2]) # counterPairKey(m[2], m[1])

\* A bucket built from a game with brawler "A" on both teams, the winner at
\* rank 10 and the loser at rank 16: the entry "A|A" holds the winner's
\* weight in wins and both weights in plays; the entries "B|C" and "C|B"
\* are two.
C34_Witness ==
    /\ reply.op = "calculateStats"
    /\ Len(reply.games) = 1
    /\ "m1" \in DOMAIN m_stats
    /\ "y" \in DOMAIN m_stats["m1"]
    /\ LET counterStats == m_stats["m1"]["y"].counterStats
       IN  /\ counterPairKey(BrawlerA, BrawlerA) \in DOMAIN counterStats
           /\ counterStats[counterPairKey(BrawlerA, BrawlerA)].wins
                  = getRankWeight(m_config, 10)
           /\ counterStats[counterPairKey(BrawlerA, BrawlerA)].plays
                  = RAdd(getRankWeight(m_config, 10), getRankWeight(m_config, 16))
           /\ counterPairKey(BrawlerB, BrawlerC) \in DOMAIN counterStats
           /\ counterPairKey(BrawlerC, BrawlerB) \in DOMAIN counterStats
           /\ counterStats[counterPairKey(BrawlerC, BrawlerB)].wins = RZero

\* The pairs of teammates of a team whose sorted key is key.
TeammatePairs(teamData, key) ==
    { p \in (DOMAIN teamData) \X (DOMAIN teamData) :
        /\ p[1] < p[2]
        /\ sortedPairKey(teamData[p[1]].brawlerName, teamData[p[2]].brawlerName) = key }

\* The weight of a pair of teammates: the rank-weight of the integer nearest
\* to their average rank, the upper one of two; or the average of their two
\* rank-weights.
PairWeight(c, p1, p2, ofAverageRank) ==
    IF ofAverageRank
    THEN LET sum == p1.rank + p2.rank
             nearest == CHOOSE r \in 0..sum : 2 * r >= sum /\ 2 * r < sum + 2
         IN  getRankWeight(c, nearest)
    ELSE RDiv(RAdd(getRankWeight(c, p1.rank), getRankWeight(c, p2.rank)), Rat(2, 1))

TeamSynergy(c, teamData, key, ofAverageRank) ==
    LET pairs == TeammatePairs(teamData, key)
    IN  RSumOver(pairs, [p \in pairs |->
                           PairWeight(c, teamData[p[1]], teamData[p[2]], ofAverageRank)])

RECURSIVE SynergyWins(_, _, _, _)
SynergyWins(c, games, key, ofAverageRank) ==
    IF games = <<>> THEN RZero
    ELSE RAdd(TeamSynergy(c, Head(games).winningTeamData, key, ofAverageRank),
              SynergyWins(c, Tail(games), key, ofAverageRank))

RECURSIVE SynergyPlays(_, _, _, _)
SynergyPlays(c, games, key, ofAverageRank) ==
    IF games = <<>> THEN RZero
    ELSE RAdd(RAdd(TeamSynergy(c, Head(games).winningTeamData, key, ofAverageRank),
                   TeamSynergy(c, Head(games).losingTeamData, key, ofAverageRank)),
              SynergyPlays(c, Tail(games), key, ofAverageRank))

\* The keys of the pairs of teammates of the games.
TeamKeys(teamData) ==
    { sortedPairKey(teamData[p[1]].brawlerName, teamData[p[2]].brawlerName) :
        p \in { q \in (DOMAIN teamData) \X (DOMAIN teamData) : q[1] < q[2] } }
SynergyKeys(games) ==
    UNION { TeamKeys(games[g].winningTeamData) \cup TeamKeys(games[g].losingTeamData)
            : g \in DOMAIN games }

\* After a build the synergy entries of every bucket are those of the pairs
\* of teammates of its games, each key the same for both orders of its pair,
\* plays the sum of the pairs' weights and wins the sum over winning teams.
SynergySums(ofAverageRank) ==
    reply.op = "calculateStats" =>
        \A mapName \in DOMAIN m_stats : \A modeName \in DOMAIN m_stats[mapName] :
            LET games == GamesOf(reply.games, mapName, modeName)
                synergyStats == m_stats[mapName][modeName].synergyStats
            IN  /\ DOMAIN synergyStats = SynergyKeys(games)
                /\ \A b1, b2 \in GameNames(games) :
                       sortedPairKey(b1, b2) = sortedPairKey(b2, b1)
                /\ \A key \in SynergyKeys(games) :
                       /\ synergyStats[key].plays =
                              SynergyPlays(m_config, games, key, ofAverageRank)
                       /\ synergyStats[key].wins =
                              SynergyWins(m_config, games, key, ofAverageRank)

\* C35, amended: the weight of a pair of teammates is the rank-weight of the
\* two players' average rank, rounded half away from zero and then clamped.
C35_SynergyOfAverageRank == SynergySums(TRUE)

\* C35, as stated: the weight of a pair is the average of the two players'
\* rank-weights.
C35_SynergyOfAverageWeight == SynergySums(FALSE)

\* A bucket built from one game won by A at rank 16 and C at rank 13: the
\* entry "A|C" holds the weight of rank 15 in wins and plays, which is not
\* the average of the weights of ranks 16 and 13.
C35_Witness ==
    /\ reply.op = "calculateStats"
    /\ Len(reply.games) = 1
    /\ "m1" \in DOMAIN m_stats
    /\ "x" \in DOMAIN m_stats["m1"]
    /\ LET synergyStats == m_stats["m1"]["x"].synergyStats
           key == sortedPairKey(BrawlerC, BrawlerA)
       IN  /\ key \in DOMAIN synergyStats
           /\ synergyStats[key].wins = getRankWeight(m_config, 15)
           /\ synergyStats[key].plays = getRankWeight(m_config, 15)
           /\ synergyStats[key].plays #
                  RDiv(RAdd(getRankWeight(m_config, 16), getRankWeight(m_config, 13)),
                       Rat(2, 1))

\* The rank-weights of all the players of a list of games.
PlayersOf(games) ==
    { <<g, side, i>> \in (DOMAIN games) \X {"winning", "losing"} \X (1..3) :
        i \in DOMAIN (IF side = "winning" THEN games[g].winningTeamData
                      ELSE games[g].losingTeamData) }
PlayerWeights(c, games) ==
    LET players == PlayersOf(games)
    IN  RSumOver(players,
                 [p \in players |->
                    LET teamData == IF p[2] = "winning" THEN games[p[1]].winningTeamData
                                    ELSE games[p[1]].losingTeamData
                    IN  getRankWeight(c, teamData[p[3]].rank)])

\* The pick rates getPickRate returns for the brawlers of a bucket.
PickRates(mapName, modeName) ==
    [brawler \in DOMAIN m_stats[mapName][modeName].brawlerStats |->
        getPickRate(m_stats, m_config, brawler, mapName, modeName)]

\* C36: after a build a bucket's total weighted plays is the sum of the
\* rank-weights of the six players of each of its games and the sum of the
\* plays of its brawler entries; the pick rates of its brawlers lie between
\* 0 and 1 and sum to 1.
C36_TotalPlays ==
    reply.op = "calculateStats" =>
        \A mapName \in DOMAIN m_stats : \A modeName \in DOMAIN m_stats[mapName] :
            LET games == GamesOf(reply.games, mapName, modeName)
                bucket == m_stats[mapName][modeName]
                brawlers == DOMAIN bucket.brawlerStats
                pickRates == PickRates(mapName, modeName)
            IN  /\ Cardinality(PlayersOf(games)) = 6 * Len(games)
                /\ bucket.totalWeightedPlays = PlayerWeights(m_config, games)
                /\ bucket.totalWeightedPlays =
                       RSumOver(brawlers,
                                [b \in brawlers |-> bucket.brawlerStats[b].plays])
                /\ \A b \in brawlers :
                       /\ pickRates[b].has
                       /\ RLe(RZero, pickRates[b].value)
                       /\ RLe(pickRates[b].value, ROne)
                /\ RSumOver(brawlers, [b \in brawlers |-> pickRates[b].value]) = ROne

\* A bucket built from two games whose brawlers have pick rates strictly
\* between 0 and 1.
C36_Witness ==
    /\ reply.op = "calculateStats"
    /\ \E mapName \in DOMAIN m_stats : \E modeName \in DOMAIN m_stats[mapName] :
           LET bucket == m_stats[mapName][modeName]
               pickRates == PickRates(mapName, modeName)
           IN  /\ Len(GamesOf(reply.games, mapName, modeName)) = 2
               /\ Cardinality(DOMAIN bucket.brawlerStats) >= 4
               /\ \A b \in DOMAIN bucket.brawlerStats :
                      /\ pickRates[b].has
                      /\ RLt(RZero, pickRates[b].value)
                      /\ RLt(pickRates[b].value, ROne)

\* Every entry of a table has 0 <= wins <= plays.
WinsWithinPlays(hash) ==
    \A key \in DOMAIN hash :
        /\ RLe(RZero, hash[key].wins)
        /\ RLe(hash[key].wins, hash[key].plays)

EntriesWithinPlays(stats) ==
    \A mapName \in DOMAIN stats : \A modeName \in DOMAIN stats[mapName] :
        LET bucket == stats[mapName][modeName]
        IN  /\ WinsWithinPlays(bucket.brawlerStats)
            /\ WinsWithinPlays(bucket.synergyStats)
            /\ WinsWithinPlays(bucket.counterStats)

\* C37: the table built from any prefix of the games, and so the table the
\* calculator holds at any time, has 0 <= wins <= plays in every brawler,
\* synergy and counter entry of every bucket.
C37_WinsWithinPlays ==
    /\ EntriesWithinPlays(m_stats)
    /\ reply.op = "calculateStats" =>
           \A k \in 0..Len(reply.games) :
               EntriesWithinPlays(calculateStats(EmptyHash, m_config,
                                                 SubSeq(reply.games, 1, k)))

\* A table built from two games that holds a brawler, a pair of teammates
\* and a matchup with wins strictly between 0 and plays.
C37_Witness ==
    /\ reply.op = "calculateStats"
    /\ Len(reply.games) = 2
    /\ \E mapName \in DOMAIN m_stats : \E modeName \in DOMAIN m_stats[mapName] :
           LET bucket == m_stats[mapName][modeName]
               Between(hash) ==
                   \E key \in DOMAIN hash :
                       /\ RLt(RZero, hash[key].wins)
                       /\ RLt(hash[key].wins, hash[key].plays)
           IN  /\ Between(bucket.brawlerStats)
               /\ Between(bucket.synergyStats)
               /\ Between(bucket.counterStats)

\* The state of node id is its parent's state with its move applied: the
\* move appended to the picks of the team whose turn it was at the parent,
\* the other team's picks and the bans as they were, the pick number one
\* higher.
StateFollowsParent(tree, id) ==
    LET n == tree[id]
        p == tree[n.parent].state
    IN  /\ n.parent \in DOMAIN tree
        /\ n.parent < id
        /\ applyMove(p, n.move).ok
        /\ n.state = applyMove(p, n.move).state
        /\ n.state.bans = p.bans
        /\ n.state.pickNumber = p.pickNumber + 1
        /\ n.state.team1Picks =
               IF p.turn = "team1" THEN Append(p.team1Picks, n.move) ELSE p.team1Picks
        /\ n.state.team2Picks =
               IF p.turn = "team2" THEN Append(p.team2Picks, n.move) ELSE p.team2Picks

TerminalWhenComplete(n) ==
    /\ n.isTerminal <=> isComplete(n.state)
    /\ n.isTerminal => n.untriedMoves = <<>> /\ n.children = <<>>

NodesWellFormed ==
    \A run \in DOMAIN trees : \A id \in DOMAIN trees[run] :
        /\ id # 1 => StateFollowsParent(trees[run], id)
        /\ TerminalWhenComplete(trees[run][id])

\* C38: at all times of a search every node but the root holds its parent's
\* state with its move applied, a node is flagged terminal exactly when its
\* state is complete and then has no untried move and no child, and no step
\* changes the state, the parent or the move of a node of a tree.
C38_NodeStates ==
    /\ [](NodesWellFormed)
    /\ [][\A run \in DOMAIN trees :
            (trees[run] # <<>> /\ trees'[run] # <<>>) =>
                \A id \in DOMAIN trees[run] :
                    /\ id \in DOMAIN trees'[run]
                    /\ trees'[run][id].state = trees[run][id].state
                    /\ trees'[run][id].parent = trees[run][id].parent
                    /\ trees'[run][id].move = trees[run][id].move
                    /\ trees'[run][id].isTerminal = trees[run][id].isTerminal]_vars

\* A terminal node that iterations have descended to more than once: it has
\* been visited twice and has no child.
C38_Witness ==
    \E run \in DOMAIN trees : \E id \in DOMAIN trees[run] :
        /\ id # 1
        /\ trees[run][id].isTerminal
        /\ isComplete(trees[run][id].state)
        /\ trees[run][id].visits >= 2
        /\ trees[run][id].children = <<>>

\* A root state startMcts refuses to search.
NothingToSearch(rootState) ==
    isComplete(rootState) \/ getLegalMoves(rootState) = <<>>

\* C39: a call of startMcts while no search is running, with a root state
\* that is complete or has no legal move, starts no worker task and no
\* controller, emits mctsFinalResult with an empty ranking and then
\* mctsFinished, leaves isRunning() false and leaves m_stopRequested and
\* m_totalIterationsDone as they were.
C39_NothingToSearch ==
    [][\A rootState \in RootStates :
          (NothingToSearch(rootState) /\ ~isRunning /\ startMcts(rootState)) =>
              /\ log' = <<mctsFinalResult, mctsFinished>>
              /\ ranking' = <<>>
              /\ pool' = pool /\ queue' = queue
              /\ ctrl' = ctrl /\ ctrl'.pc = "none"
              /\ trees' = trees /\ runs' = runs
              /\ m_stopRequested' = m_stopRequested
              /\ m_totalIterationsDone' = m_totalIterationsDone]_vars

\* After a search that was stopped and has ended, a start with nothing to
\* search has emitted its two signals; the flag is still set and the counter
\* still holds the iterations of that search.
C39_Witness ==
    /\ runs >= 1
    /\ ~isRunning
    /\ mainPc = "idle"
    /\ log = <<mctsFinalResult, mctsFinished>>
    /\ ranking = <<>>
    /\ m_stopRequested
    /\ m_totalIterationsDone > 0

\* The picks the turn table has given a team before pick pickNumber.
PicksGiven(team, pickNumber) ==
    Cardinality({ k \in 1..(pickNumber - 1) : k <= LastPick /\ TurnAtPick(k) = team })

\* C40: in every state reachable from a fresh draft each team holds the
\* picks the turn table has given it so far, so a complete draft has 3 picks
\* in each team; no call of applyMove has been rejected because a team
\* already has 3 picks, and before the draft is complete none would be.
C40_PicksFollowTurnTable ==
    /\ Len(ds.team1Picks) = PicksGiven("team1", ds.pickNumber)
    /\ Len(ds.team2Picks) = PicksGiven("team2", ds.pickNumber)
    /\ isComplete(ds) =>
           Len(ds.team1Picks) = MaxTeamSize /\ Len(ds.team2Picks) = MaxTeamSize
    /\ last.err # "teamfull"
    /\ ~isComplete(ds) => \A brawler \in Names : MoveError(ds, brawler) # "teamfull"

\* A complete draft, three picks in each team, on which a further move was
\* rejected because the draft is complete.
C40_Witness ==
    /\ isComplete(ds)
    /\ Len(ds.team1Picks) = 3
    /\ Len(ds.team2Picks) = 3
    /\ last = [op |-> "move", err |-> "complete"]

====
